---------------------------- MODULE Spec2Model ----------------------------
(***************************************************************************)
(* Identicon generator: the seed-to-attribute derivation of the            *)
(* GeometricIdenticon components, the digest provider generateHash, and    *)
(* the way MainContent / Sidebar feed one into the other.                  *)
(*                                                                         *)
(* Strings that the code slices (hashes) are sequences of one-character    *)
(* strings; texts that are only concatenated and hashed are TLA+ strings.  *)
(*                                                                         *)
(* JavaScript numbers are carried exactly: a number is a record            *)
(* [nan |-> BOOLEAN, v |-> Int] whose v counts 1/510ths (Unit), so that    *)
(* (byte / 255) * range is the integer byte * (2 * range).  Angles count   *)
(* 1/510ths of pi.  The comparisons made below (a value against the end    *)
(* of its interval, Math.floor of byte*7/255) come out the same in IEEE    *)
(* doubles: byte/255 is exactly 1 only for byte 255, and byte*7/255 is an  *)
(* integer only for byte 0 and byte 255.                                   *)
(***************************************************************************)
EXTENDS Integers, Sequences, FiniteSets, TLC

VARIABLES
  impl,         \* which GeometricIdenticon.tsx is mounted
  inputString,  \* the text handed to generateHash(text, index) by the page
  index,        \* the primitive's index, 0 .. amountOfShapes - 1
  seed,         \* the seed prop of the GeometricIdenticon component
  hash,         \* the component's memoized hash (the string that is sliced)
  params,       \* the component's derived values (position, typeIndex, ...)
  prevHash,     \* the hash of the previous render, when the seed changed
  prevParams,   \* the derived values of the previous render
  changedSlot,  \* the byte slot in which hash differs from prevHash
  probe,        \* what one call of getRandomValue read and returned
  pc,           \* position in the render sequence
  home,         \* the Home page: its state values, its interval, its pending effects
  tree          \* below the page: MainContent's memoized list, one GeometricIdenticon's
                \* useMemo cells and its mesh

vars == <<impl, inputString, index, seed, hash, params, prevHash, prevParams,
          changedSlot, probe, pc, home, tree>>

None == [none |-> TRUE]

-----------------------------------------------------------------------------
(* Characters and strings                                                    *)

HexDigits ==
  <<"0", "1", "2", "3", "4", "5", "6", "7", "8", "9", "a", "b", "c", "d", "e", "f">>

IsHexDigit(c) == \E i \in 1..16 : HexDigits[i] = c

HexValue(c) == (CHOOSE i \in 1..16 : HexDigits[i] = c) - 1

Min(a, b) == IF a < b THEN a ELSE b

\* String.prototype.slice(start, end) for 0 <= start: both ends are clamped to
\* the length, and an empty range gives the empty string.
slice(str, start, end) ==
  LET from == Min(start, Len(str))
      to   == Min(end, Len(str))
  IN  IF from >= to THEN <<>> ELSE SubSeq(str, from + 1, to)

\* The characters of a sliced string as one TLA+ string.
RECURSIVE Join(_)
Join(str) == IF str = <<>> THEN "" ELSE Head(str) \o Join(Tail(str))

\* Only the last decimal digit of n.
NumberToStringLastDigit(n) == HexDigits[(n % 10) + 1]

\* Number.prototype.toString() of a non-negative integer: its decimal digits.
RECURSIVE NumberToString(_)
NumberToString(n) ==
  IF n < 10 THEN HexDigits[n + 1]
  ELSE NumberToString(n \div 10) \o HexDigits[(n % 10) + 1]

-----------------------------------------------------------------------------
(* Numbers                                                                   *)

Unit == 2 * 255

NaN == [nan |-> TRUE, v |-> 0]

Num(n) == [nan |-> FALSE, v |-> n]

Add(a, b) == IF a.nan \/ b.nan THEN NaN ELSE Num(a.v + b.v)

Sub(a, b) == IF a.nan \/ b.nan THEN NaN ELSE Num(a.v - b.v)

\* Math.floor, as a whole number of units (NaN stays NaN).
MathFloor(a) == IF a.nan THEN NaN ELSE Num(a.v \div Unit)

\* The longest prefix of hex digits of str, read in base 16.
RECURSIVE HexPrefix(_, _)
HexPrefix(str, acc) ==
  IF str = <<>> \/ ~IsHexDigit(Head(str)) THEN acc
  ELSE HexPrefix(Tail(str), acc * 16 + HexValue(Head(str)))

\* parseInt(str, 16): NaN when str does not start with a hex digit, else the
\* value of its longest hex prefix (parseInt("1g", 16) is 1).  Signs, white
\* space and a 0x prefix do not occur in the strings drawn here.
parseInt(str) ==
  IF str = <<>> \/ ~IsHexDigit(Head(str)) THEN NaN ELSE Num(HexPrefix(str, 0))

-----------------------------------------------------------------------------
(* Digest provider                                                           *)

\* CryptoJS.SHA256 on the messages this model hashes: the 32 bytes of the
\* SHA-256 digest of the UTF-8 text (all messages here are ASCII).
SHA256(message) ==
  CASE message = "0" ->
       <<95, 236, 235, 102, 255, 200, 111, 56, 217, 82, 120, 108, 109, 105, 108, 121, 194, 219, 194, 57, 221, 78, 145, 180, 103, 41, 215, 58, 39, 251, 87, 233>>
  [] message = "1" ->
       <<107, 134, 178, 115, 255, 52, 252, 225, 157, 107, 128, 78, 255, 90, 63, 87, 71, 173, 164, 234, 162, 47, 29, 73, 192, 30, 82, 221, 183, 135, 91, 75>>
  [] message = "2" ->
       <<212, 115, 94, 58, 38, 94, 22, 238, 224, 63, 89, 113, 139, 155, 93, 3, 1, 156, 7, 216, 182, 197, 31, 144, 218, 58, 102, 110, 236, 19, 171, 53>>
  [] message = "3" ->
       <<78, 7, 64, 133, 98, 190, 219, 139, 96, 206, 5, 193, 222, 207, 227, 173, 22, 183, 34, 48, 150, 125, 224, 31, 100, 11, 126, 71, 41, 180, 159, 206>>
  [] message = "4" ->
       <<75, 34, 119, 119, 212, 221, 31, 198, 28, 111, 136, 79, 72, 100, 29, 2, 180, 209, 33, 211, 253, 50, 140, 176, 139, 85, 49, 252, 172, 218, 191, 138>>
  [] message = "5" ->
       <<239, 45, 18, 125, 227, 123, 148, 43, 170, 208, 97, 69, 229, 75, 12, 97, 154, 31, 34, 50, 123, 46, 187, 207, 190, 199, 143, 85, 100, 175, 227, 157>>
  [] message = "6" ->
       <<231, 246, 192, 17, 119, 110, 141, 183, 205, 51, 11, 84, 23, 79, 215, 111, 125, 2, 22, 182, 18, 56, 122, 95, 252, 251, 129, 230, 240, 145, 150, 131>>
  [] message = "7" ->
       <<121, 2, 105, 155, 228, 44, 138, 142, 70, 251, 187, 69, 1, 114, 101, 23, 232, 107, 34, 197, 106, 24, 159, 118, 37, 166, 218, 73, 8, 27, 36, 81>>
  [] message = "8" ->
       <<44, 98, 66, 50, 205, 210, 33, 119, 18, 148, 223, 187, 49, 10, 202, 0, 10, 13, 246, 172, 139, 102, 182, 150, 217, 14, 240, 111, 222, 251, 100, 163>>
  [] message = "9" ->
       <<25, 88, 30, 39, 222, 124, 237, 0, 255, 28, 229, 11, 32, 71, 231, 165, 103, 199, 107, 28, 186, 235, 171, 229, 239, 3, 247, 195, 1, 123, 181, 183>>
  [] message = "5feceb66ffc86f38d952786c6d696c79c2dbc239dd4e91b46729d73a27fb57e9" ->
       <<81, 34, 161, 209, 188, 157, 135, 102, 45, 207, 95, 184, 112, 173, 248, 197, 95, 175, 44, 225, 47, 173, 27, 172, 172, 47, 231, 223, 136, 23, 36, 102>>
  [] message = "6b86b273ff34fce19d6b804eff5a3f5747ada4eaa22f1d49c01e52ddb7875b4b" ->
       <<224, 188, 97, 78, 79, 208, 53, 164, 136, 97, 151, 153, 133, 59, 7, 81, 67, 222, 234, 89, 108, 71, 123, 141, 192, 119, 227, 9, 192, 254, 66, 233>>
  [] message = "d4735e3a265e16eee03f59718b9b5d03019c07d8b6c51f90da3a666eec13ab35" ->
       <<216, 189, 249, 160, 203, 39, 161, 147, 161, 18, 125, 226, 146, 75, 110, 90, 158, 76, 45, 59, 63, 228, 46, 147, 94, 22, 12, 1, 31, 61, 241, 252>>
  [] message = "4e07408562bedb8b60ce05c1decfe3ad16b72230967de01f640b7e4729b49fce" ->
       <<91, 101, 113, 45, 86, 92, 21, 81, 52, 9, 152, 16, 45, 65, 140, 236, 203, 53, 219, 141, 191, 180, 95, 144, 65, 196, 202, 228, 131, 216, 113, 123>>
  [] message = "4b227777d4dd1fc61c6f884f48641d02b4d121d3fd328cb08b5531fcacdabf8a" ->
       <<3, 60, 51, 154, 121, 117, 84, 39, 133, 190, 116, 35, 165, 179, 47, 168, 4, 120, 19, 104, 151, 38, 33, 65, 67, 205, 215, 147, 151, 71, 112, 156>>
  [] message = "ef2d127de37b942baad06145e54b0c619a1f22327b2ebbcfbec78f5564afe39d" ->
       <<200, 29, 64, 219, 238, 211, 105, 241, 71, 96, 134, 207, 136, 45, 211, 107, 241, 195, 220, 53, 224, 112, 6, 240, 190, 197, 136, 185, 131, 5, 84, 135>>
  [] message = "e7f6c011776e8db7cd330b54174fd76f7d0216b612387a5ffcfb81e6f0919683" ->
       <<158, 37, 155, 127, 107, 76, 116, 25, 55, 169, 106, 150, 23, 179, 230, 184, 78, 22, 111, 246, 233, 37, 228, 20, 231, 183, 41, 54, 245, 162, 165, 31>>
  [] message = "7902699be42c8a8e46fbbb4501726517e86b22c56a189f7625a6da49081b2451" ->
       <<16, 72, 240, 61, 181, 212, 95, 101, 75, 149, 94, 174, 32, 216, 75, 114, 103, 54, 128, 251, 19, 179, 24, 231, 218, 34, 232, 220, 229, 141, 242, 28>>
  [] message = "2c624232cdd221771294dfbb310aca000a0df6ac8b66b696d90ef06fdefb64a3" ->
       <<143, 7, 3, 212, 6, 253, 176, 234, 128, 17, 213, 222, 52, 44, 58, 202, 98, 33, 71, 88, 168, 162, 181, 184, 164, 233, 241, 200, 198, 196, 36, 98>>
  [] message = "19581e27de7ced00ff1ce50b2047e7a567c76b1cbaebabe5ef03f7c3017bb5b7" ->
       <<24, 43, 50, 53, 149, 88, 235, 9, 37, 17, 183, 22, 104, 103, 80, 61, 221, 131, 251, 229, 180, 47, 37, 69, 225, 144, 48, 22, 231, 33, 57, 61>>
  [] message = "Alice0" ->
       <<226, 233, 13, 34, 91, 74, 20, 193, 69, 157, 17, 196, 250, 120, 175, 136, 253, 198, 187, 88, 84, 180, 86, 42, 142, 207, 90, 196, 221, 15, 73, 204>>
  [] message = "Alice1" ->
       <<157, 50, 141, 139, 122, 197, 110, 31, 113, 206, 148, 237, 60, 121, 117, 214, 60, 139, 111, 26, 84, 213, 24, 109, 232, 136, 28, 242, 125, 216, 179, 169>>
  [] message = "Alice2" ->
       <<53, 116, 163, 160, 144, 35, 27, 58, 120, 206, 34, 122, 186, 17, 127, 0, 176, 207, 226, 114, 167, 232, 142, 76, 52, 118, 29, 163, 40, 180, 46, 147>>
  [] message = "Alice3" ->
       <<125, 148, 251, 62, 250, 53, 65, 189, 22, 137, 125, 237, 66, 208, 68, 255, 107, 47, 176, 65, 225, 14, 204, 210, 111, 205, 191, 65, 203, 127, 39, 36>>
  [] message = "Alice4" ->
       <<34, 178, 21, 121, 147, 251, 22, 131, 200, 15, 5, 104, 173, 7, 218, 133, 254, 232, 141, 146, 72, 121, 227, 208, 222, 61, 241, 9, 48, 43, 120, 247>>
  [] message = "Alice5" ->
       <<194, 8, 234, 204, 174, 152, 82, 35, 166, 42, 12, 63, 244, 194, 83, 73, 168, 24, 12, 147, 28, 5, 73, 153, 255, 243, 132, 25, 231, 223, 227, 206>>
  [] message = "Alice6" ->
       <<217, 170, 83, 221, 4, 21, 130, 255, 75, 36, 150, 162, 220, 125, 146, 74, 193, 194, 226, 129, 27, 172, 73, 169, 156, 202, 232, 14, 153, 107, 35, 58>>
  [] message = "Alice7" ->
       <<13, 237, 66, 212, 143, 116, 38, 35, 45, 1, 197, 34, 202, 12, 8, 231, 58, 87, 219, 232, 55, 127, 102, 203, 112, 212, 195, 66, 209, 220, 201, 218>>
  [] message = "Alice8" ->
       <<77, 113, 60, 14, 106, 218, 142, 13, 75, 170, 82, 107, 217, 87, 155, 168, 6, 9, 61, 72, 194, 23, 132, 37, 22, 97, 169, 152, 183, 110, 163, 46>>
  [] message = "Alice9" ->
       <<117, 217, 14, 228, 185, 5, 217, 97, 132, 220, 69, 173, 105, 67, 104, 174, 19, 246, 110, 23, 79, 211, 252, 44, 32, 26, 144, 78, 124, 106, 40, 44>>
  [] message = "Diana0" ->
       <<177, 160, 87, 163, 118, 131, 116, 79, 96, 96, 195, 81, 37, 64, 11, 227, 161, 232, 167, 4, 165, 182, 203, 71, 114, 204, 137, 168, 238, 101, 240, 204>>
  [] message = "Diana1" ->
       <<54, 40, 240, 5, 151, 114, 73, 181, 208, 147, 109, 187, 194, 22, 58, 21, 21, 30, 81, 121, 253, 48, 209, 243, 6, 115, 255, 85, 160, 129, 199, 96>>
  [] message = "Diana2" ->
       <<135, 212, 136, 203, 78, 169, 63, 240, 140, 231, 103, 67, 12, 48, 56, 246, 90, 113, 247, 203, 120, 27, 213, 20, 232, 64, 143, 228, 31, 131, 208, 135>>
  [] message = "Diana3" ->
       <<107, 209, 42, 192, 17, 229, 47, 216, 34, 50, 140, 100, 20, 32, 102, 183, 114, 136, 85, 191, 110, 102, 126, 159, 39, 60, 182, 54, 110, 114, 77, 114>>
  [] message = "Diana4" ->
       <<240, 204, 239, 214, 44, 119, 141, 46, 172, 178, 19, 13, 222, 251, 33, 122, 172, 216, 230, 254, 100, 155, 214, 23, 65, 147, 59, 26, 209, 135, 124, 247>>
  [] message = "Diana5" ->
       <<69, 0, 45, 237, 252, 162, 45, 85, 3, 83, 240, 164, 214, 171, 221, 29, 130, 204, 10, 34, 33, 217, 156, 8, 15, 138, 24, 11, 166, 106, 213, 115>>
  [] message = "Diana6" ->
       <<136, 143, 5, 117, 175, 83, 232, 38, 93, 108, 71, 66, 9, 68, 70, 42, 143, 186, 81, 23, 126, 69, 27, 191, 37, 165, 167, 172, 114, 139, 98, 144>>
  [] message = "Diana7" ->
       <<197, 222, 128, 42, 58, 21, 17, 232, 90, 5, 56, 215, 105, 114, 63, 46, 141, 247, 25, 25, 107, 255, 81, 17, 212, 108, 56, 2, 135, 86, 79, 252>>
  [] message = "Diana8" ->
       <<202, 182, 57, 128, 199, 46, 233, 63, 125, 171, 98, 63, 63, 34, 8, 19, 179, 142, 165, 98, 156, 161, 27, 81, 198, 159, 233, 141, 222, 120, 155, 90>>
  [] message = "Diana9" ->
       <<193, 76, 130, 4, 165, 101, 99, 138, 45, 189, 114, 245, 86, 147, 219, 165, 25, 84, 190, 58, 134, 200, 52, 108, 2, 88, 90, 105, 135, 188, 136, 178>>
  [] message = "Eve0" ->
       <<165, 230, 66, 106, 203, 144, 177, 193, 86, 113, 241, 62, 209, 129, 158, 169, 41, 104, 161, 240, 4, 137, 112, 179, 32, 57, 31, 175, 43, 185, 226, 46>>
  [] message = "Eve1" ->
       <<188, 210, 81, 186, 5, 173, 239, 154, 234, 50, 104, 55, 45, 84, 194, 197, 11, 249, 7, 80, 142, 226, 19, 115, 10, 82, 145, 31, 69, 19, 119, 231>>
  [] message = "Eve2" ->
       <<247, 117, 6, 54, 135, 101, 168, 158, 75, 216, 94, 205, 32, 206, 54, 151, 216, 83, 200, 53, 133, 166, 40, 90, 17, 186, 237, 224, 231, 79, 2, 38>>
  [] message = "Eve3" ->
       <<237, 117, 109, 172, 216, 151, 169, 189, 8, 185, 195, 140, 18, 229, 48, 143, 107, 13, 241, 103, 173, 54, 39, 34, 242, 201, 170, 234, 168, 148, 219, 244>>
  [] message = "Eve4" ->
       <<254, 248, 3, 96, 21, 226, 149, 163, 75, 139, 41, 225, 137, 103, 35, 226, 13, 51, 206, 83, 206, 233, 166, 168, 74, 73, 76, 250, 68, 105, 149, 216>>
  [] message = "Eve5" ->
       <<224, 203, 242, 158, 95, 34, 151, 134, 229, 196, 144, 110, 110, 49, 99, 105, 93, 116, 166, 246, 126, 17, 28, 179, 239, 126, 188, 243, 218, 214, 134, 43>>
  [] message = "Eve6" ->
       <<76, 212, 16, 30, 96, 153, 209, 87, 104, 243, 57, 159, 136, 182, 70, 78, 111, 65, 13, 114, 225, 60, 3, 211, 45, 179, 194, 197, 193, 242, 108, 230>>
  [] message = "Eve7" ->
       <<253, 165, 57, 164, 223, 165, 38, 69, 24, 26, 118, 6, 160, 155, 166, 144, 165, 157, 235, 9, 57, 34, 45, 39, 232, 130, 139, 17, 41, 142, 101, 103>>
  [] message = "Eve8" ->
       <<224, 228, 190, 36, 98, 5, 118, 56, 60, 184, 106, 59, 70, 13, 49, 178, 141, 117, 14, 224, 16, 129, 30, 176, 151, 55, 239, 241, 219, 122, 78, 73>>
  [] message = "Eve9" ->
       <<199, 72, 50, 53, 242, 235, 225, 7, 73, 20, 236, 242, 160, 253, 24, 183, 106, 65, 189, 123, 227, 103, 219, 240, 15, 251, 199, 235, 187, 199, 211, 135>>
  [] message = "u0" ->
       <<157, 192, 34, 35, 218, 66, 99, 132, 38, 138, 11, 72, 155, 40, 176, 8, 70, 64, 153, 73, 25, 103, 246, 240, 89, 120, 83, 233, 57, 149, 62, 160>>
  [] message = "u1" ->
       <<187, 130, 3, 13, 188, 43, 202, 186, 50, 169, 11, 242, 226, 7, 168, 74, 133, 111, 197, 240, 51, 183, 124, 72, 8, 54, 171, 111, 119, 244, 15, 25>>
  [] message = "u2" ->
       <<108, 162, 2, 200, 142, 84, 157, 255, 104, 192, 155, 250, 251, 252, 96, 178, 250, 192, 116, 222, 188, 30, 103, 119, 233, 186, 75, 108, 112, 62, 209, 20>>
  [] message = "u3" ->
       <<1, 30, 57, 239, 226, 37, 144, 244, 163, 57, 173, 25, 205, 24, 15, 77, 133, 94, 50, 254, 186, 96, 45, 30, 200, 225, 84, 120, 8, 56, 201, 156>>
  [] message = "u4" ->
       <<233, 201, 129, 164, 121, 152, 98, 21, 186, 176, 191, 108, 50, 239, 239, 161, 72, 82, 83, 75, 19, 140, 53, 9, 216, 54, 158, 221, 81, 3, 99, 218>>
  [] message = "u5" ->
       <<88, 80, 160, 62, 128, 31, 251, 16, 141, 161, 22, 14, 51, 115, 151, 148, 67, 0, 75, 158, 103, 10, 221, 243, 48, 0, 220, 169, 4, 95, 164, 19>>
  [] message = "u6" ->
       <<113, 234, 95, 91, 150, 33, 152, 197, 208, 83, 39, 101, 231, 233, 44, 221, 5, 25, 69, 107, 179, 215, 53, 41, 126, 83, 93, 202, 177, 123, 248, 77>>
  [] message = "u7" ->
       <<232, 24, 0, 0, 250, 103, 232, 36, 4, 58, 165, 34, 198, 116, 61, 229, 125, 188, 93, 225, 211, 157, 84, 131, 172, 182, 24, 182, 153, 169, 221, 0>>
  [] message = "u8" ->
       <<200, 153, 81, 162, 76, 108, 162, 140, 19, 253, 28, 253, 198, 70, 178, 182, 86, 214, 158, 97, 169, 43, 145, 2, 59, 231, 235, 88, 235, 145, 75, 107>>
  [] message = "u9" ->
       <<85, 63, 38, 171, 238, 235, 228, 190, 24, 96, 63, 60, 21, 187, 246, 205, 49, 6, 0, 46, 134, 156, 233, 39, 80, 84, 134, 143, 176, 214, 16, 175>>
  [] message = "enter0" ->
       <<167, 86, 69, 234, 79, 40, 184, 242, 162, 60, 37, 92, 254, 133, 84, 218, 193, 152, 229, 61, 38, 220, 24, 210, 66, 39, 199, 250, 109, 95, 76, 55>>
  [] message = "enter1" ->
       <<179, 72, 184, 212, 126, 237, 150, 146, 251, 154, 203, 89, 35, 73, 67, 41, 142, 245, 81, 249, 91, 72, 89, 168, 145, 204, 161, 158, 31, 138, 37, 143>>
  [] message = "enter2" ->
       <<123, 76, 154, 253, 55, 167, 88, 119, 178, 42, 171, 118, 132, 199, 98, 181, 199, 219, 205, 21, 119, 4, 76, 66, 190, 202, 135, 36, 124, 18, 159, 156>>
  [] message = "enter3" ->
       <<69, 139, 39, 12, 70, 155, 107, 100, 56, 201, 42, 33, 154, 81, 229, 166, 17, 16, 30, 195, 215, 62, 204, 141, 233, 104, 18, 1, 51, 249, 3, 88>>
  [] message = "enter4" ->
       <<42, 69, 214, 241, 226, 25, 100, 170, 24, 78, 149, 43, 238, 184, 131, 117, 113, 61, 111, 1, 39, 182, 65, 173, 222, 98, 121, 144, 155, 197, 100, 15>>
  [] message = "enter5" ->
       <<15, 98, 126, 139, 138, 155, 252, 56, 192, 52, 191, 156, 142, 4, 60, 125, 126, 53, 204, 29, 97, 124, 22, 187, 251, 10, 136, 24, 70, 207, 1, 1>>
  [] message = "enter6" ->
       <<135, 2, 201, 57, 166, 168, 6, 84, 107, 95, 5, 15, 89, 29, 52, 80, 99, 187, 92, 222, 48, 35, 150, 78, 102, 155, 84, 74, 76, 127, 82, 177>>
  [] message = "enter7" ->
       <<3, 156, 185, 70, 63, 191, 30, 69, 126, 254, 153, 202, 130, 167, 192, 121, 160, 164, 4, 212, 88, 82, 14, 53, 74, 14, 128, 191, 118, 1, 215, 59>>
  [] message = "enter8" ->
       <<41, 213, 13, 41, 212, 155, 79, 127, 36, 36, 175, 38, 123, 4, 107, 247, 179, 64, 206, 120, 196, 204, 130, 109, 38, 141, 0, 38, 17, 103, 19, 190>>
  [] message = "enter9" ->
       <<146, 38, 213, 186, 114, 8, 206, 61, 157, 73, 10, 210, 94, 171, 133, 234, 65, 100, 114, 30, 30, 155, 22, 61, 104, 49, 111, 171, 59, 129, 142, 44>>
  [] message = "enter username :)0" ->
       <<126, 200, 205, 206, 209, 130, 87, 23, 198, 100, 205, 81, 82, 22, 77, 185, 204, 253, 236, 125, 249, 21, 146, 159, 34, 56, 208, 200, 106, 18, 204, 78>>
  [] message = "enter username :)1" ->
       <<218, 154, 167, 119, 207, 10, 206, 26, 103, 17, 157, 53, 89, 217, 150, 165, 93, 69, 182, 125, 203, 108, 64, 185, 187, 41, 119, 28, 94, 162, 185, 71>>
  [] message = "enter username :)2" ->
       <<193, 34, 25, 135, 253, 112, 52, 230, 162, 97, 94, 212, 204, 29, 223, 203, 153, 102, 135, 180, 222, 147, 51, 32, 170, 121, 183, 153, 174, 148, 34, 98>>
  [] message = "enter username :)3" ->
       <<8, 147, 161, 212, 171, 27, 156, 134, 53, 12, 250, 140, 163, 102, 205, 12, 40, 198, 151, 39, 138, 11, 156, 215, 46, 9, 88, 5, 171, 5, 253, 93>>
  [] message = "enter username :)4" ->
       <<37, 196, 116, 240, 101, 173, 249, 42, 151, 95, 140, 133, 146, 227, 16, 183, 199, 178, 222, 191, 255, 254, 24, 66, 238, 172, 182, 81, 117, 68, 90, 119>>
  [] message = "enter username :)5" ->
       <<89, 209, 253, 35, 4, 228, 212, 138, 14, 104, 41, 95, 195, 71, 238, 122, 177, 116, 44, 11, 249, 244, 31, 252, 82, 115, 44, 163, 132, 109, 35, 216>>
  [] message = "enter username :)6" ->
       <<1, 102, 158, 102, 76, 125, 21, 157, 125, 78, 253, 38, 124, 219, 120, 159, 99, 22, 64, 30, 179, 81, 200, 175, 250, 57, 78, 53, 124, 63, 47, 0>>
  [] message = "enter username :)7" ->
       <<23, 48, 21, 62, 254, 139, 175, 187, 44, 250, 172, 68, 137, 228, 238, 123, 95, 89, 103, 39, 164, 64, 189, 172, 158, 98, 253, 107, 22, 119, 146, 241>>
  [] message = "enter username :)8" ->
       <<186, 185, 144, 220, 240, 40, 209, 176, 62, 181, 244, 254, 20, 31, 14, 131, 151, 129, 142, 74, 248, 29, 101, 17, 171, 251, 188, 39, 155, 116, 69, 142>>
  [] message = "enter username :)9" ->
       <<35, 57, 45, 70, 5, 234, 112, 63, 50, 99, 49, 63, 104, 186, 201, 178, 221, 172, 134, 200, 197, 0, 75, 114, 31, 78, 43, 236, 53, 188, 112, 155>>
  [] message = "e2e90d225b4a14c1459d11c4fa78af88fdc6bb5854b4562a8ecf5ac4dd0f49cc" ->
       <<176, 102, 55, 44, 156, 190, 107, 91, 245, 40, 131, 205, 25, 155, 102, 147, 191, 93, 23, 18, 86, 185, 188, 111, 112, 66, 185, 229, 156, 113, 78, 87>>
  [] message = "9d328d8b7ac56e1f71ce94ed3c7975d63c8b6f1a54d5186de8881cf27dd8b3a9" ->
       <<8, 25, 52, 208, 73, 2, 11, 188, 115, 223, 209, 79, 129, 254, 190, 116, 248, 212, 167, 115, 107, 222, 28, 33, 24, 254, 153, 5, 84, 23, 91, 247>>
  [] message = "3574a3a090231b3a78ce227aba117f00b0cfe272a7e88e4c34761da328b42e93" ->
       <<83, 247, 110, 197, 102, 185, 114, 239, 172, 123, 206, 137, 126, 155, 76, 79, 225, 149, 156, 195, 188, 192, 12, 27, 234, 147, 249, 32, 244, 223, 137, 136>>
  [] message = "7d94fb3efa3541bd16897ded42d044ff6b2fb041e10eccd26fcdbf41cb7f2724" ->
       <<171, 104, 50, 136, 162, 48, 77, 139, 107, 69, 198, 134, 68, 29, 116, 152, 229, 52, 216, 76, 211, 108, 129, 159, 74, 51, 136, 249, 217, 237, 35, 116>>
  [] message = "22b2157993fb1683c80f0568ad07da85fee88d924879e3d0de3df109302b78f7" ->
       <<61, 248, 48, 240, 86, 206, 162, 55, 128, 49, 74, 54, 5, 7, 214, 154, 128, 173, 37, 106, 182, 118, 194, 245, 219, 88, 32, 232, 182, 134, 83, 54>>
  [] message = "c208eaccae985223a62a0c3ff4c25349a8180c931c054999fff38419e7dfe3ce" ->
       <<14, 189, 118, 25, 243, 68, 94, 134, 198, 41, 138, 164, 201, 79, 56, 24, 154, 191, 61, 104, 55, 75, 36, 172, 141, 172, 18, 188, 165, 235, 217, 105>>
  [] message = "d9aa53dd041582ff4b2496a2dc7d924ac1c2e2811bac49a99ccae80e996b233a" ->
       <<117, 142, 113, 152, 208, 92, 133, 205, 62, 65, 101, 240, 193, 139, 53, 56, 210, 17, 246, 66, 187, 186, 187, 186, 7, 97, 146, 233, 223, 234, 160, 192>>
  [] message = "0ded42d48f7426232d01c522ca0c08e73a57dbe8377f66cb70d4c342d1dcc9da" ->
       <<245, 110, 113, 242, 227, 213, 125, 77, 132, 90, 87, 96, 225, 177, 57, 105, 25, 110, 108, 0, 66, 27, 1, 190, 186, 155, 248, 240, 33, 41, 69, 245>>
  [] message = "4d713c0e6ada8e0d4baa526bd9579ba806093d48c21784251661a998b76ea32e" ->
       <<140, 238, 147, 127, 243, 134, 225, 226, 185, 158, 64, 147, 134, 65, 39, 4, 157, 55, 142, 212, 163, 134, 81, 222, 69, 36, 91, 234, 79, 196, 162, 7>>
  [] message = "75d90ee4b905d96184dc45ad694368ae13f66e174fd3fc2c201a904e7c6a282c" ->
       <<98, 223, 18, 249, 246, 217, 126, 7, 178, 27, 129, 94, 50, 94, 164, 250, 36, 127, 62, 218, 41, 43, 34, 205, 113, 2, 96, 10, 127, 145, 5, 21>>
  [] message = "b1a057a37683744f6060c35125400be3a1e8a704a5b6cb4772cc89a8ee65f0cc" ->
       <<7, 141, 165, 112, 40, 3, 113, 232, 180, 183, 36, 171, 11, 235, 67, 230, 124, 10, 53, 100, 140, 104, 131, 155, 137, 170, 50, 199, 129, 147, 40, 242>>
  [] message = "3628f005977249b5d0936dbbc2163a15151e5179fd30d1f30673ff55a081c760" ->
       <<250, 205, 5, 150, 88, 234, 133, 4, 101, 158, 83, 90, 161, 19, 86, 126, 2, 245, 249, 140, 2, 216, 107, 4, 38, 235, 90, 63, 59, 85, 2, 186>>
  [] message = "87d488cb4ea93ff08ce767430c3038f65a71f7cb781bd514e8408fe41f83d087" ->
       <<119, 196, 170, 30, 104, 25, 183, 209, 56, 160, 208, 133, 14, 157, 97, 36, 14, 200, 39, 195, 61, 170, 251, 242, 22, 106, 16, 175, 22, 15, 53, 59>>
  [] message = "6bd12ac011e52fd822328c64142066b7728855bf6e667e9f273cb6366e724d72" ->
       <<51, 166, 213, 26, 34, 41, 225, 179, 55, 173, 175, 219, 77, 94, 192, 35, 133, 208, 88, 17, 167, 145, 196, 226, 93, 222, 24, 82, 191, 206, 163, 157>>
  [] message = "f0ccefd62c778d2eacb2130ddefb217aacd8e6fe649bd61741933b1ad1877cf7" ->
       <<9, 1, 178, 201, 249, 38, 19, 23, 172, 54, 91, 195, 36, 139, 39, 238, 172, 225, 159, 161, 168, 230, 63, 21, 152, 102, 198, 110, 131, 152, 80, 97>>
  [] message = "45002dedfca22d550353f0a4d6abdd1d82cc0a2221d99c080f8a180ba66ad573" ->
       <<181, 91, 173, 166, 184, 239, 79, 106, 61, 213, 6, 79, 35, 233, 158, 249, 2, 26, 77, 144, 61, 140, 210, 100, 4, 199, 112, 228, 252, 192, 92, 75>>
  [] message = "888f0575af53e8265d6c47420944462a8fba51177e451bbf25a5a7ac728b6290" ->
       <<196, 130, 167, 189, 85, 254, 2, 58, 243, 242, 9, 26, 161, 248, 224, 151, 31, 134, 56, 53, 144, 204, 245, 148, 170, 189, 30, 170, 50, 97, 8, 213>>
  [] message = "c5de802a3a1511e85a0538d769723f2e8df719196bff5111d46c380287564ffc" ->
       <<136, 208, 67, 40, 251, 118, 254, 244, 177, 198, 222, 109, 63, 220, 143, 150, 144, 60, 113, 116, 18, 247, 88, 114, 198, 68, 142, 243, 166, 98, 50, 84>>
  [] message = "cab63980c72ee93f7dab623f3f220813b38ea5629ca11b51c69fe98dde789b5a" ->
       <<48, 220, 238, 188, 221, 18, 113, 255, 193, 14, 150, 18, 138, 249, 215, 128, 74, 137, 203, 197, 19, 138, 222, 5, 122, 70, 25, 20, 110, 255, 13, 79>>
  [] message = "c14c8204a565638a2dbd72f55693dba51954be3a86c8346c02585a6987bc88b2" ->
       <<25, 166, 186, 195, 180, 248, 200, 91, 205, 7, 131, 155, 151, 222, 57, 147, 182, 74, 55, 30, 69, 37, 238, 91, 45, 69, 47, 220, 77, 44, 88, 17>>
  [] message = "a5e6426acb90b1c15671f13ed1819ea92968a1f0048970b320391faf2bb9e22e" ->
       <<51, 151, 184, 56, 132, 224, 29, 72, 186, 7, 125, 51, 30, 191, 25, 234, 16, 252, 92, 214, 87, 202, 170, 192, 143, 206, 200, 242, 58, 125, 202, 26>>
  [] message = "bcd251ba05adef9aea3268372d54c2c50bf907508ee213730a52911f451377e7" ->
       <<250, 67, 197, 221, 186, 123, 73, 215, 193, 238, 75, 101, 197, 202, 114, 187, 222, 32, 244, 51, 235, 28, 4, 107, 83, 113, 111, 68, 87, 129, 196, 217>>
  [] message = "f77506368765a89e4bd85ecd20ce3697d853c83585a6285a11baede0e74f0226" ->
       <<181, 98, 221, 153, 0, 128, 68, 61, 251, 32, 87, 70, 206, 211, 42, 136, 66, 191, 40, 234, 206, 213, 241, 164, 172, 219, 238, 51, 107, 30, 105, 155>>
  [] message = "ed756dacd897a9bd08b9c38c12e5308f6b0df167ad362722f2c9aaeaa894dbf4" ->
       <<252, 204, 237, 58, 33, 30, 235, 115, 198, 155, 33, 97, 191, 237, 228, 21, 169, 102, 244, 61, 5, 0, 128, 215, 206, 197, 148, 235, 4, 56, 196, 107>>
  [] message = "fef8036015e295a34b8b29e1896723e20d33ce53cee9a6a84a494cfa446995d8" ->
       <<234, 103, 172, 43, 25, 48, 205, 48, 16, 142, 93, 173, 31, 4, 28, 38, 68, 159, 156, 253, 176, 187, 236, 69, 0, 95, 209, 230, 251, 138, 12, 93>>
  [] message = "e0cbf29e5f229786e5c4906e6e3163695d74a6f67e111cb3ef7ebcf3dad6862b" ->
       <<240, 216, 226, 180, 121, 221, 189, 28, 112, 204, 108, 182, 12, 248, 31, 250, 39, 240, 160, 68, 228, 237, 225, 217, 160, 3, 117, 138, 225, 146, 99, 128>>
  [] message = "4cd4101e6099d15768f3399f88b6464e6f410d72e13c03d32db3c2c5c1f26ce6" ->
       <<115, 245, 159, 136, 209, 164, 14, 80, 135, 41, 249, 175, 1, 221, 138, 136, 247, 215, 170, 252, 136, 38, 35, 121, 130, 134, 80, 255, 232, 139, 113, 230>>
  [] message = "fda539a4dfa52645181a7606a09ba690a59deb0939222d27e8828b11298e6567" ->
       <<196, 74, 15, 225, 241, 23, 196, 152, 187, 151, 18, 148, 209, 43, 63, 245, 95, 65, 73, 175, 216, 216, 26, 223, 5, 169, 199, 90, 225, 74, 68, 173>>
  [] message = "e0e4be24620576383cb86a3b460d31b28d750ee010811eb09737eff1db7a4e49" ->
       <<62, 183, 63, 229, 140, 149, 186, 204, 140, 144, 83, 223, 101, 131, 173, 7, 7, 220, 98, 29, 198, 57, 63, 214, 177, 117, 120, 2, 211, 67, 11, 53>>
  [] message = "c7483235f2ebe1074914ecf2a0fd18b76a41bd7be367dbf00ffbc7ebbbc7d387" ->
       <<121, 94, 237, 192, 82, 57, 131, 151, 156, 45, 24, 66, 197, 233, 148, 134, 215, 140, 4, 241, 173, 95, 163, 92, 56, 20, 116, 142, 13, 206, 253, 44>>
  [] message = "9dc02223da426384268a0b489b28b008464099491967f6f0597853e939953ea0" ->
       <<65, 114, 201, 96, 30, 40, 16, 67, 246, 57, 97, 90, 28, 77, 173, 158, 76, 64, 161, 7, 132, 57, 237, 169, 29, 146, 98, 56, 170, 37, 18, 72>>
  [] message = "bb82030dbc2bcaba32a90bf2e207a84a856fc5f033b77c480836ab6f77f40f19" ->
       <<76, 179, 156, 195, 231, 146, 167, 126, 100, 144, 137, 41, 253, 195, 86, 220, 91, 66, 90, 65, 222, 189, 228, 47, 24, 62, 138, 75, 66, 27, 222, 249>>
  [] message = "6ca202c88e549dff68c09bfafbfc60b2fac074debc1e6777e9ba4b6c703ed114" ->
       <<255, 172, 112, 31, 128, 186, 220, 69, 231, 24, 155, 44, 155, 152, 104, 228, 248, 178, 22, 88, 248, 105, 245, 152, 131, 56, 212, 133, 122, 208, 125, 85>>
  [] message = "011e39efe22590f4a339ad19cd180f4d855e32feba602d1ec8e154780838c99c" ->
       <<17, 82, 101, 131, 251, 2, 136, 143, 126, 162, 179, 171, 164, 72, 150, 31, 39, 8, 179, 57, 137, 180, 185, 112, 225, 202, 71, 34, 63, 21, 60, 231>>
  [] message = "e9c981a479986215bab0bf6c32efefa14852534b138c3509d8369edd510363da" ->
       <<8, 41, 237, 108, 51, 179, 69, 175, 179, 63, 217, 20, 107, 84, 105, 254, 0, 190, 182, 9, 23, 57, 245, 91, 241, 110, 175, 198, 95, 230, 194, 46>>
  [] message = "5850a03e801ffb108da1160e3373979443004b9e670addf33000dca9045fa413" ->
       <<248, 238, 48, 140, 121, 54, 247, 82, 79, 142, 69, 125, 26, 149, 181, 227, 209, 12, 198, 65, 107, 148, 30, 154, 120, 57, 194, 199, 251, 214, 211, 224>>
  [] message = "71ea5f5b962198c5d0532765e7e92cdd0519456bb3d735297e535dcab17bf84d" ->
       <<208, 247, 76, 23, 60, 22, 67, 170, 62, 190, 126, 73, 124, 168, 162, 190, 4, 38, 25, 92, 120, 68, 125, 214, 237, 180, 153, 150, 132, 217, 200, 78>>
  [] message = "e8180000fa67e824043aa522c6743de57dbc5de1d39d5483acb618b699a9dd00" ->
       <<255, 40, 40, 34, 63, 26, 64, 229, 236, 110, 251, 25, 148, 201, 159, 131, 249, 14, 67, 52, 36, 100, 96, 68, 223, 84, 247, 26, 243, 237, 116, 221>>
  [] message = "c89951a24c6ca28c13fd1cfdc646b2b656d69e61a92b91023be7eb58eb914b6b" ->
       <<165, 139, 171, 75, 64, 227, 28, 249, 58, 45, 227, 15, 250, 48, 187, 249, 33, 170, 11, 241, 100, 191, 133, 242, 171, 251, 193, 53, 86, 195, 130, 106>>
  [] message = "553f26abeeebe4be18603f3c15bbf6cd3106002e869ce9275054868fb0d610af" ->
       <<108, 170, 197, 248, 121, 254, 41, 200, 86, 41, 89, 219, 60, 15, 6, 32, 181, 11, 72, 153, 19, 107, 143, 182, 184, 218, 32, 179, 245, 115, 254, 66>>
  [] message = "a75645ea4f28b8f2a23c255cfe8554dac198e53d26dc18d24227c7fa6d5f4c37" ->
       <<1, 176, 249, 31, 181, 117, 196, 152, 241, 165, 213, 48, 232, 239, 169, 206, 171, 13, 159, 142, 235, 75, 135, 123, 234, 136, 77, 107, 226, 204, 0, 171>>
  [] message = "b348b8d47eed9692fb9acb59234943298ef551f95b4859a891cca19e1f8a258f" ->
       <<62, 192, 56, 230, 75, 195, 113, 217, 30, 226, 231, 5, 247, 35, 111, 136, 135, 241, 51, 124, 87, 243, 172, 106, 182, 32, 114, 110, 174, 123, 151, 86>>
  [] message = "7b4c9afd37a75877b22aab7684c762b5c7dbcd1577044c42beca87247c129f9c" ->
       <<212, 90, 58, 249, 203, 227, 98, 150, 99, 224, 58, 3, 3, 60, 169, 224, 153, 192, 249, 2, 0, 229, 163, 75, 126, 215, 95, 134, 30, 12, 65, 9>>
  [] message = "458b270c469b6b6438c92a219a51e5a611101ec3d73ecc8de968120133f90358" ->
       <<115, 158, 16, 197, 218, 19, 83, 92, 141, 206, 131, 74, 32, 206, 14, 17, 161, 162, 225, 73, 134, 167, 114, 9, 13, 238, 107, 132, 187, 165, 145, 200>>
  [] message = "2a45d6f1e21964aa184e952beeb88375713d6f0127b641adde6279909bc5640f" ->
       <<194, 42, 214, 138, 191, 251, 144, 1, 142, 158, 205, 36, 53, 50, 222, 1, 82, 119, 243, 20, 16, 177, 251, 252, 182, 235, 29, 143, 93, 98, 37, 121>>
  [] message = "0f627e8b8a9bfc38c034bf9c8e043c7d7e35cc1d617c16bbfb0a881846cf0101" ->
       <<187, 9, 129, 145, 251, 87, 252, 213, 89, 164, 86, 253, 224, 84, 164, 94, 210, 210, 190, 214, 83, 105, 229, 111, 10, 155, 134, 5, 188, 224, 4, 96>>
  [] message = "8702c939a6a806546b5f050f591d345063bb5cde3023964e669b544a4c7f52b1" ->
       <<236, 192, 116, 88, 33, 184, 45, 243, 25, 130, 70, 247, 45, 2, 152, 0, 53, 233, 29, 53, 162, 139, 47, 252, 67, 130, 75, 74, 114, 248, 183, 206>>
  [] message = "039cb9463fbf1e457efe99ca82a7c079a0a404d458520e354a0e80bf7601d73b" ->
       <<91, 229, 29, 143, 27, 155, 63, 83, 255, 26, 215, 171, 65, 188, 250, 217, 67, 158, 42, 110, 53, 82, 245, 96, 150, 192, 233, 30, 205, 171, 19, 2>>
  [] message = "29d50d29d49b4f7f2424af267b046bf7b340ce78c4cc826d268d0026116713be" ->
       <<153, 15, 190, 238, 245, 103, 243, 106, 216, 24, 249, 188, 72, 85, 225, 213, 29, 119, 90, 117, 7, 109, 183, 94, 139, 129, 199, 215, 6, 187, 128, 158>>
  [] message = "9226d5ba7208ce3d9d490ad25eab85ea4164721e1e9b163d68316fab3b818e2c" ->
       <<145, 245, 70, 173, 216, 1, 226, 4, 147, 184, 189, 184, 250, 223, 125, 188, 170, 156, 222, 69, 124, 136, 82, 137, 138, 195, 66, 20, 62, 132, 162, 149>>
  [] message = "7ec8cdced1825717c664cd5152164db9ccfdec7df915929f2238d0c86a12cc4e" ->
       <<135, 54, 28, 241, 13, 194, 160, 253, 104, 230, 245, 148, 39, 43, 166, 240, 191, 37, 4, 149, 194, 120, 160, 82, 155, 231, 47, 200, 149, 188, 230, 93>>
  [] message = "da9aa777cf0ace1a67119d3559d996a55d45b67dcb6c40b9bb29771c5ea2b947" ->
       <<168, 136, 90, 42, 194, 156, 239, 169, 41, 245, 31, 8, 36, 121, 5, 207, 122, 189, 228, 64, 87, 48, 106, 20, 170, 149, 234, 188, 125, 86, 137, 197>>
  [] message = "c1221987fd7034e6a2615ed4cc1ddfcb996687b4de933320aa79b799ae942262" ->
       <<9, 251, 117, 76, 63, 126, 246, 145, 48, 97, 26, 240, 114, 119, 90, 113, 66, 48, 184, 169, 60, 132, 129, 188, 205, 110, 117, 64, 189, 17, 147, 211>>
  [] message = "0893a1d4ab1b9c86350cfa8ca366cd0c28c697278a0b9cd72e095805ab05fd5d" ->
       <<242, 205, 208, 46, 53, 189, 96, 239, 173, 12, 88, 123, 80, 215, 40, 12, 218, 239, 255, 171, 11, 215, 162, 68, 112, 14, 39, 85, 208, 80, 221, 8>>
  [] message = "25c474f065adf92a975f8c8592e310b7c7b2debffffe1842eeacb65175445a77" ->
       <<152, 23, 159, 71, 251, 18, 130, 14, 164, 17, 36, 163, 205, 249, 104, 126, 143, 205, 238, 46, 206, 9, 64, 79, 121, 139, 155, 133, 7, 57, 240, 74>>
  [] message = "59d1fd2304e4d48a0e68295fc347ee7ab1742c0bf9f41ffc52732ca3846d23d8" ->
       <<100, 154, 38, 41, 16, 27, 241, 146, 210, 251, 185, 254, 243, 128, 125, 213, 78, 8, 29, 4, 35, 178, 244, 178, 76, 144, 227, 172, 25, 112, 165, 156>>
  [] message = "01669e664c7d159d7d4efd267cdb789f6316401eb351c8affa394e357c3f2f00" ->
       <<90, 104, 86, 251, 165, 130, 116, 254, 241, 236, 25, 188, 112, 76, 102, 123, 231, 208, 194, 200, 74, 213, 138, 215, 0, 228, 153, 246, 131, 249, 164, 20>>
  [] message = "1730153efe8bafbb2cfaac4489e4ee7b5f596727a440bdac9e62fd6b167792f1" ->
       <<95, 217, 202, 43, 89, 18, 104, 212, 46, 15, 210, 78, 148, 124, 146, 138, 229, 15, 172, 15, 192, 131, 114, 139, 192, 71, 20, 29, 78, 24, 228, 145>>
  [] message = "bab990dcf028d1b03eb5f4fe141f0e8397818e4af81d6511abfbbc279b74458e" ->
       <<87, 25, 66, 252, 212, 160, 214, 121, 221, 19, 25, 29, 142, 179, 120, 50, 164, 146, 129, 134, 196, 19, 35, 200, 33, 40, 255, 143, 31, 48, 139, 212>>
  [] message = "23392d4605ea703f3263313f68bac9b2ddac86c8c5004b721f4e2bec35bc709b" ->
       <<112, 32, 9, 29, 241, 94, 196, 234, 166, 136, 142, 195, 168, 230, 138, 83, 155, 51, 120, 132, 156, 9, 172, 242, 204, 106, 68, 109, 131, 66, 200, 206>>
  [] message = "Quiznos0" ->
       <<82, 123, 188, 75, 137, 200, 3, 223, 215, 238, 70, 39, 60, 121, 140, 254, 9, 250, 208, 132, 43, 219, 196, 23, 107, 22, 200, 19, 180, 18, 212, 185>>
  [] message = "Quiznos1" ->
       <<197, 67, 215, 167, 188, 255, 187, 25, 93, 246, 56, 127, 8, 85, 150, 7, 2, 179, 130, 236, 40, 204, 125, 172, 255, 73, 234, 200, 246, 122, 208, 12>>
  [] message = "Quiznos2" ->
       <<91, 74, 152, 59, 53, 240, 121, 255, 82, 129, 129, 7, 128, 19, 174, 222, 90, 169, 117, 121, 44, 52, 59, 180, 54, 160, 16, 187, 59, 118, 134, 248>>
  [] message = "Quiznos3" ->
       <<239, 151, 22, 188, 242, 127, 156, 44, 152, 52, 112, 39, 103, 207, 158, 163, 52, 58, 28, 241, 20, 90, 8, 25, 196, 113, 33, 7, 218, 206, 247, 162>>
  [] message = "Quiznos4" ->
       <<144, 211, 211, 228, 63, 32, 208, 45, 53, 80, 210, 157, 192, 49, 110, 43, 101, 136, 141, 240, 30, 92, 134, 52, 168, 192, 224, 185, 164, 240, 196, 124>>
  [] message = "Quiznos5" ->
       <<86, 186, 193, 60, 131, 93, 234, 94, 139, 246, 173, 224, 31, 244, 33, 236, 82, 48, 117, 75, 177, 198, 108, 71, 17, 98, 2, 82, 65, 127, 22, 2>>
  [] message = "Quiznos6" ->
       <<167, 229, 87, 116, 233, 189, 116, 217, 226, 202, 188, 248, 144, 67, 192, 16, 67, 102, 208, 192, 74, 43, 231, 224, 237, 248, 114, 199, 194, 113, 118, 97>>
  [] message = "Quiznos7" ->
       <<166, 144, 52, 96, 96, 20, 246, 38, 249, 48, 244, 32, 232, 164, 88, 246, 99, 22, 23, 136, 164, 109, 236, 242, 107, 252, 150, 220, 170, 15, 45, 5>>
  [] message = "Quiznos8" ->
       <<92, 141, 230, 231, 152, 65, 126, 176, 6, 101, 34, 83, 139, 136, 9, 203, 16, 84, 167, 18, 125, 99, 229, 95, 242, 131, 35, 52, 196, 250, 54, 234>>
  [] message = "Quiznos9" ->
       <<4, 119, 86, 170, 172, 239, 4, 192, 243, 95, 92, 74, 100, 173, 243, 89, 72, 16, 89, 113, 208, 11, 216, 86, 142, 187, 135, 168, 158, 253, 211, 202>>
  [] message = "Boberta0" ->
       <<100, 241, 186, 251, 79, 85, 143, 167, 197, 118, 250, 1, 182, 139, 120, 182, 153, 236, 150, 114, 183, 101, 70, 14, 209, 161, 100, 39, 110, 82, 73, 246>>
  [] message = "Boberta1" ->
       <<193, 14, 245, 20, 188, 58, 185, 11, 247, 167, 29, 80, 151, 72, 124, 92, 195, 0, 255, 192, 172, 111, 167, 197, 246, 77, 230, 56, 56, 245, 188, 218>>
  [] message = "Boberta2" ->
       <<200, 79, 121, 108, 252, 74, 143, 32, 236, 236, 212, 146, 203, 117, 105, 104, 130, 116, 220, 168, 95, 184, 52, 83, 182, 191, 48, 144, 36, 141, 242, 213>>
  [] message = "Boberta3" ->
       <<249, 250, 114, 124, 113, 4, 167, 53, 46, 215, 86, 208, 20, 242, 25, 213, 4, 55, 152, 90, 114, 39, 62, 107, 111, 56, 46, 1, 160, 194, 216, 187>>
  [] message = "Boberta4" ->
       <<78, 233, 237, 239, 134, 67, 227, 15, 43, 119, 251, 76, 175, 180, 174, 40, 201, 14, 122, 84, 218, 189, 198, 93, 187, 212, 248, 253, 205, 105, 39, 67>>
  [] message = "Boberta5" ->
       <<146, 74, 59, 167, 12, 139, 214, 174, 185, 38, 220, 210, 31, 125, 231, 246, 33, 61, 208, 215, 60, 14, 31, 202, 169, 129, 192, 15, 64, 14, 136, 68>>
  [] message = "Boberta6" ->
       <<10, 65, 111, 64, 13, 1, 45, 51, 0, 149, 198, 202, 113, 1, 73, 22, 161, 56, 217, 177, 91, 107, 213, 7, 174, 167, 18, 39, 248, 43, 241, 228>>
  [] message = "Boberta7" ->
       <<9, 201, 138, 238, 80, 179, 4, 86, 4, 243, 161, 101, 30, 187, 19, 27, 142, 46, 7, 251, 178, 15, 67, 237, 244, 64, 81, 114, 45, 193, 95, 244>>
  [] message = "Boberta8" ->
       <<13, 116, 113, 172, 140, 217, 0, 136, 74, 49, 228, 156, 183, 42, 122, 208, 55, 123, 13, 165, 108, 240, 171, 117, 206, 162, 52, 169, 251, 3, 29, 26>>
  [] message = "Boberta9" ->
       <<194, 226, 167, 51, 32, 81, 209, 138, 73, 124, 229, 56, 147, 243, 237, 210, 5, 153, 179, 111, 57, 25, 11, 100, 64, 21, 168, 219, 80, 202, 7, 210>>
  [] message = "Charlie0" ->
       <<54, 52, 218, 41, 232, 133, 41, 3, 136, 241, 208, 54, 41, 69, 228, 202, 95, 198, 6, 165, 64, 27, 24, 174, 71, 24, 206, 22, 156, 251, 252, 69>>
  [] message = "Charlie1" ->
       <<191, 95, 193, 180, 29, 57, 170, 72, 135, 45, 255, 23, 215, 234, 169, 253, 252, 77, 79, 13, 214, 201, 74, 141, 80, 81, 170, 62, 238, 12, 216, 144>>
  [] message = "Charlie2" ->
       <<198, 12, 70, 239, 41, 107, 122, 237, 21, 76, 205, 178, 121, 87, 129, 130, 73, 135, 208, 140, 101, 34, 41, 89, 33, 113, 143, 214, 46, 138, 124, 29>>
  [] message = "Charlie3" ->
       <<127, 48, 241, 233, 143, 10, 166, 8, 107, 122, 33, 180, 139, 131, 218, 49, 89, 89, 56, 34, 207, 10, 160, 48, 0, 92, 163, 86, 209, 159, 143, 53>>
  [] message = "Charlie4" ->
       <<82, 128, 122, 63, 159, 136, 60, 180, 6, 174, 250, 56, 158, 138, 3, 166, 197, 212, 243, 253, 16, 238, 54, 236, 252, 116, 82, 190, 16, 50, 117, 106>>
  [] message = "Charlie5" ->
       <<144, 237, 185, 17, 64, 227, 36, 254, 215, 25, 245, 101, 90, 36, 65, 50, 159, 16, 153, 121, 38, 227, 145, 210, 55, 212, 145, 176, 246, 196, 15, 10>>
  [] message = "Charlie6" ->
       <<80, 46, 109, 217, 201, 249, 92, 178, 252, 0, 255, 198, 249, 130, 139, 48, 218, 22, 5, 195, 231, 68, 29, 254, 175, 70, 92, 26, 69, 4, 126, 162>>
  [] message = "Charlie7" ->
       <<57, 166, 77, 40, 193, 225, 99, 239, 203, 235, 78, 188, 108, 232, 230, 25, 135, 34, 99, 76, 24, 63, 238, 189, 82, 151, 139, 3, 47, 182, 15, 166>>
  [] message = "Charlie8" ->
       <<187, 107, 251, 173, 144, 231, 215, 181, 51, 244, 116, 84, 111, 49, 51, 153, 244, 168, 23, 196, 60, 207, 7, 188, 46, 1, 68, 156, 135, 218, 151, 164>>
  [] message = "Charlie9" ->
       <<16, 224, 110, 168, 146, 204, 247, 105, 213, 182, 44, 115, 23, 193, 97, 90, 201, 190, 112, 126, 199, 249, 0, 78, 15, 79, 116, 181, 157, 180, 196, 170>>
  [] message = "527bbc4b89c803dfd7ee46273c798cfe09fad0842bdbc4176b16c813b412d4b9" ->
       <<18, 207, 52, 50, 212, 65, 100, 53, 224, 170, 62, 136, 60, 81, 182, 116, 54, 179, 55, 154, 17, 51, 2, 239, 10, 15, 128, 246, 163, 40, 68, 246>>
  [] message = "c543d7a7bcffbb195df6387f0855960702b382ec28cc7dacff49eac8f67ad00c" ->
       <<190, 232, 227, 37, 66, 211, 27, 38, 36, 173, 153, 56, 14, 72, 101, 78, 32, 167, 183, 244, 160, 246, 65, 155, 197, 143, 95, 27, 199, 3, 93, 235>>
  [] message = "5b4a983b35f079ff528181078013aede5aa975792c343bb436a010bb3b7686f8" ->
       <<245, 138, 103, 254, 115, 89, 205, 16, 45, 239, 171, 67, 19, 117, 11, 136, 222, 77, 238, 199, 221, 3, 237, 28, 12, 6, 10, 201, 216, 159, 31, 103>>
  [] message = "ef9716bcf27f9c2c9834702767cf9ea3343a1cf1145a0819c4712107dacef7a2" ->
       <<140, 196, 101, 252, 118, 42, 58, 239, 141, 165, 196, 253, 130, 199, 238, 255, 35, 194, 119, 93, 59, 5, 34, 76, 191, 57, 137, 98, 92, 39, 247, 52>>
  [] message = "90d3d3e43f20d02d3550d29dc0316e2b65888df01e5c8634a8c0e0b9a4f0c47c" ->
       <<185, 83, 194, 135, 243, 187, 81, 86, 186, 4, 146, 136, 193, 175, 25, 11, 74, 189, 142, 181, 154, 89, 32, 44, 247, 116, 41, 222, 166, 112, 79, 27>>
  [] message = "56bac13c835dea5e8bf6ade01ff421ec5230754bb1c66c4711620252417f1602" ->
       <<67, 14, 245, 8, 176, 57, 87, 253, 236, 145, 95, 172, 171, 201, 61, 54, 119, 155, 195, 153, 16, 174, 71, 43, 233, 233, 156, 71, 184, 233, 247, 26>>
  [] message = "a7e55774e9bd74d9e2cabcf89043c0104366d0c04a2be7e0edf872c7c2717661" ->
       <<233, 213, 170, 27, 18, 196, 91, 240, 16, 44, 11, 67, 218, 56, 184, 181, 156, 238, 112, 58, 81, 20, 138, 165, 76, 102, 228, 131, 158, 209, 32, 72>>
  [] message = "a69034606014f626f930f420e8a458f663161788a46decf26bfc96dcaa0f2d05" ->
       <<116, 76, 108, 78, 92, 229, 191, 107, 248, 78, 6, 215, 14, 226, 61, 28, 205, 86, 8, 53, 110, 27, 253, 74, 86, 14, 247, 94, 66, 127, 162, 143>>
  [] message = "5c8de6e798417eb0066522538b8809cb1054a7127d63e55ff2832334c4fa36ea" ->
       <<220, 122, 204, 74, 6, 15, 68, 137, 142, 62, 201, 133, 145, 9, 136, 232, 170, 199, 231, 174, 72, 230, 122, 113, 113, 12, 82, 211, 105, 213, 105, 25>>
  [] message = "047756aaacef04c0f35f5c4a64adf35948105971d00bd8568ebb87a89efdd3ca" ->
       <<225, 37, 46, 97, 1, 99, 91, 210, 37, 36, 171, 132, 246, 21, 197, 151, 135, 51, 133, 119, 233, 223, 98, 204, 243, 86, 127, 106, 36, 186, 140, 235>>
  [] message = "64f1bafb4f558fa7c576fa01b68b78b699ec9672b765460ed1a164276e5249f6" ->
       <<12, 191, 110, 155, 219, 156, 173, 225, 105, 99, 191, 138, 169, 6, 118, 111, 89, 244, 61, 43, 165, 243, 190, 178, 2, 36, 26, 174, 19, 201, 129, 121>>
  [] message = "c10ef514bc3ab90bf7a71d5097487c5cc300ffc0ac6fa7c5f64de63838f5bcda" ->
       <<225, 51, 119, 154, 108, 142, 233, 175, 231, 21, 152, 19, 212, 46, 53, 56, 169, 146, 194, 132, 195, 31, 85, 174, 129, 17, 171, 23, 145, 124, 224, 233>>
  [] message = "c84f796cfc4a8f20ececd492cb7569688274dca85fb83453b6bf3090248df2d5" ->
       <<110, 56, 65, 51, 147, 211, 59, 209, 41, 55, 207, 78, 86, 120, 136, 71, 214, 11, 187, 149, 114, 52, 74, 127, 174, 131, 132, 43, 115, 132, 69, 82>>
  [] message = "f9fa727c7104a7352ed756d014f219d50437985a72273e6b6f382e01a0c2d8bb" ->
       <<25, 81, 163, 136, 192, 126, 89, 135, 206, 94, 44, 160, 89, 18, 127, 199, 190, 66, 185, 182, 59, 87, 11, 119, 247, 208, 121, 79, 229, 92, 218, 54>>
  [] message = "4ee9edef8643e30f2b77fb4cafb4ae28c90e7a54dabdc65dbbd4f8fdcd692743" ->
       <<117, 207, 141, 48, 218, 62, 34, 59, 240, 194, 142, 238, 98, 144, 77, 47, 18, 251, 15, 125, 208, 228, 201, 214, 132, 37, 105, 147, 168, 174, 253, 54>>
  [] message = "924a3ba70c8bd6aeb926dcd21f7de7f6213dd0d73c0e1fcaa981c00f400e8844" ->
       <<124, 245, 225, 158, 34, 217, 129, 160, 247, 42, 113, 57, 69, 128, 194, 19, 52, 215, 23, 213, 29, 112, 188, 60, 190, 28, 152, 243, 185, 134, 52, 19>>
  [] message = "0a416f400d012d330095c6ca71014916a138d9b15b6bd507aea71227f82bf1e4" ->
       <<226, 148, 16, 151, 24, 10, 100, 96, 64, 249, 239, 186, 168, 180, 93, 216, 7, 254, 51, 55, 58, 5, 215, 229, 201, 109, 195, 127, 233, 136, 183, 159>>
  [] message = "09c98aee50b3045604f3a1651ebb131b8e2e07fbb20f43edf44051722dc15ff4" ->
       <<154, 235, 118, 36, 227, 171, 152, 158, 14, 202, 19, 249, 177, 4, 2, 33, 161, 217, 117, 199, 188, 125, 222, 111, 115, 106, 179, 154, 192, 189, 225, 247>>
  [] message = "0d7471ac8cd900884a31e49cb72a7ad0377b0da56cf0ab75cea234a9fb031d1a" ->
       <<192, 211, 230, 97, 98, 22, 199, 99, 77, 236, 89, 61, 36, 55, 168, 22, 147, 79, 51, 81, 108, 42, 61, 195, 237, 59, 16, 21, 219, 4, 221, 69>>
  [] message = "c2e2a7332051d18a497ce53893f3edd20599b36f39190b644015a8db50ca07d2" ->
       <<144, 108, 76, 216, 103, 140, 54, 160, 245, 131, 58, 150, 67, 24, 179, 89, 234, 78, 168, 81, 138, 123, 187, 56, 59, 228, 186, 151, 137, 138, 44, 53>>
  [] message = "3634da29e885290388f1d0362945e4ca5fc606a5401b18ae4718ce169cfbfc45" ->
       <<239, 247, 160, 183, 221, 25, 96, 84, 54, 192, 135, 76, 225, 47, 29, 237, 207, 236, 25, 7, 191, 65, 243, 175, 158, 159, 158, 122, 170, 231, 98, 240>>
  [] message = "bf5fc1b41d39aa48872dff17d7eaa9fdfc4d4f0dd6c94a8d5051aa3eee0cd890" ->
       <<82, 95, 95, 227, 211, 170, 35, 121, 119, 144, 58, 239, 76, 69, 117, 61, 226, 83, 99, 149, 225, 10, 116, 62, 235, 53, 152, 241, 156, 93, 48, 56>>
  [] message = "c60c46ef296b7aed154ccdb2795781824987d08c6522295921718fd62e8a7c1d" ->
       <<63, 251, 72, 36, 245, 234, 64, 15, 173, 139, 1, 82, 75, 241, 162, 216, 156, 198, 160, 215, 14, 121, 222, 245, 226, 224, 64, 129, 226, 246, 101, 154>>
  [] message = "7f30f1e98f0aa6086b7a21b48b83da3159593822cf0aa030005ca356d19f8f35" ->
       <<77, 74, 155, 245, 146, 126, 12, 221, 49, 57, 171, 3, 231, 149, 125, 4, 27, 26, 81, 52, 169, 168, 125, 61, 64, 146, 254, 60, 125, 160, 169, 221>>
  [] message = "52807a3f9f883cb406aefa389e8a03a6c5d4f3fd10ee36ecfc7452be1032756a" ->
       <<129, 235, 24, 193, 89, 113, 184, 26, 150, 19, 235, 131, 223, 28, 116, 59, 144, 48, 93, 254, 195, 218, 255, 212, 125, 70, 75, 190, 190, 10, 64, 25>>
  [] message = "90edb91140e324fed719f5655a2441329f10997926e391d237d491b0f6c40f0a" ->
       <<204, 64, 54, 181, 105, 237, 209, 110, 191, 30, 66, 20, 158, 151, 30, 169, 235, 130, 179, 6, 33, 155, 43, 86, 48, 182, 181, 209, 12, 87, 145, 17>>
  [] message = "502e6dd9c9f95cb2fc00ffc6f9828b30da1605c3e7441dfeaf465c1a45047ea2" ->
       <<118, 7, 60, 145, 142, 254, 64, 204, 107, 65, 93, 78, 93, 125, 51, 73, 31, 26, 11, 203, 229, 214, 2, 90, 56, 210, 136, 30, 105, 116, 72, 226>>
  [] message = "39a64d28c1e163efcbeb4ebc6ce8e6198722634c183feebd52978b032fb60fa6" ->
       <<13, 36, 100, 128, 142, 233, 51, 10, 157, 204, 83, 214, 101, 95, 42, 185, 141, 64, 43, 7, 189, 42, 97, 201, 237, 101, 86, 37, 207, 186, 146, 100>>
  [] message = "bb6bfbad90e7d7b533f474546f313399f4a817c43ccf07bc2e01449c87da97a4" ->
       <<93, 34, 5, 14, 35, 183, 221, 1, 35, 168, 17, 122, 244, 121, 110, 37, 51, 205, 19, 230, 175, 55, 119, 151, 89, 202, 246, 117, 17, 139, 123, 99>>
  [] message = "10e06ea892ccf769d5b62c7317c1615ac9be707ec7f9004e0f4f74b59db4c4aa" ->
       <<79, 180, 182, 136, 235, 126, 193, 78, 21, 243, 191, 244, 117, 244, 133, 92, 102, 231, 187, 199, 213, 55, 168, 197, 0, 166, 86, 157, 232, 2, 169, 66>>

\* WordArray.toString(): the bytes in lowercase hex, two characters per byte.
RECURSIVE toString(_)
toString(bytes) ==
  IF bytes = <<>> THEN <<>>
  ELSE <<HexDigits[(Head(bytes) \div 16) + 1], HexDigits[(Head(bytes) % 16) + 1]>>
         \o toString(Tail(bytes))

\* utils generateHash(inputString, index): inputString + index, hashed.
generateHash(text, i) ==
  LET concatenatedString == text \o NumberToString(i)
  IN  toString(SHA256(concatenatedString))

\* A component that slices its seed prop as it is, without hashing it.
generateHashSeedUnhashed(seedString) == seedString

\* The component-local generateHash(inputString): its argument is the seed
\* prop, a string of characters.
generateHashSeed(seedString) == toString(SHA256(Join(seedString)))

-----------------------------------------------------------------------------
(* Scalar extraction                                                         *)

\* (index % (hash.length / 2)) * 2, the offset handed to slice.  hash.length/2
\* is not floored, so for an odd length the remainder can be a half and the
\* offset odd; x % (n/2) * 2 equals (2x) % n exactly.  For the empty string the
\* remainder is NaN, which slice reads as offset 0.
sliceStart(str, i) == IF Len(str) = 0 THEN 0 ELSE (2 * i) % Len(str)

\* A slice of one character instead of two: only the high hex digit is read.
sliceTextOneChar(str, i) ==
  IF Len(str) = 0 THEN <<>>
  ELSE slice(str, sliceStart(str, i), sliceStart(str, i) + 1)

\* hash.slice(start, start + 2); for the empty string both ends are NaN.
sliceText(str, i) ==
  IF Len(str) = 0 THEN <<>>
  ELSE slice(str, sliceStart(str, i), sliceStart(str, i) + 2)

\* getRandomValue(hash, index, range) = (parseInt(segment, 16) / 255) * range,
\* in 1/510ths; twiceRange is 2 * range.
getRandomValue(str, i, twiceRange) ==
  LET byte == parseInt(sliceText(str, i))
  IN  IF byte.nan THEN NaN ELSE Num(byte.v * twiceRange)

\* frontend/ copy of getRandomValue: hashIndex = index % (hash.length / 2),
\* then slice(hashIndex * 2, hashIndex * 2 + 2).
hashIndexTimes2(str, i) == IF Len(str) = 0 THEN 0 ELSE (2 * i) % Len(str)

getRandomValueFrontend(str, i, twiceRange) ==
  LET segment == IF Len(str) = 0 THEN <<>>
                 ELSE slice(str, hashIndexTimes2(str, i), hashIndexTimes2(str, i) + 2)
      byte    == parseInt(segment)
  IN  IF byte.nan THEN NaN ELSE Num(byte.v * twiceRange)

-----------------------------------------------------------------------------
(* GeometricIdenticon (identicon-frontend/src/app/GeometricIdenticon.tsx)    *)

position(h) ==
  << Sub(getRandomValue(h, 1, 20), Num(5 * Unit)),
     Sub(getRandomValue(h, 2, 20), Num(5 * Unit)),
     Sub(getRandomValue(h, 3, 20), Num(5 * Unit)) >>

typeIndex(h) == MathFloor(getRandomValue(h, 0, 14))

\* A scale without the + 0.5 offset: zero for byte 0x00.
scaleNoOffset(h) ==
  << getRandomValue(h, 4, 4), getRandomValue(h, 5, 4), getRandomValue(h, 6, 4) >>

scale(h) ==
  << Add(getRandomValue(h, 4, 4), Num(Unit \div 2)),
     Add(getRandomValue(h, 5, 4), Num(Unit \div 2)),
     Add(getRandomValue(h, 6, 4), Num(Unit \div 2)) >>

\* getColorFromHash(hash, 7): the hue of hsl(hue, 70%, 50%).
color(h) ==
  [hue |-> getRandomValue(h, 7, 720), saturation |-> 70, lightness |-> 50]

\* Euler angles, in 1/510ths of pi: the range Math.PI * 2 is two of them.
rotation(h) ==
  << getRandomValue(h, 8, 4), getRandomValue(h, 9, 4), getRandomValue(h, 10, 4) >>

\* The geometries array, by element.
geometries ==
  << "boxGeometry[1,1,1]", "sphereGeometry[1.5,32,32]", "coneGeometry[0.5,1,32]",
     "torusKnotGeometry[1.5,0.01,100,16]", "dodecahedronGeometry[0.75,0]",
     "octahedronGeometry[0.75,0]", "tetrahedronGeometry[0.75,0]",
     "boxGeometry[1,1,1]" >>

\* typeIndex % 2 === 0 (false for NaN).
wireframe(t) == ~t.nan /\ t.v % 2 = 0

\* An opacity with range 1 instead of 0.5: it reaches 1.5.
opacityRangeOne(h) == Add(Num(Unit \div 2), getRandomValue(h, 11, 2))

\* An opacity read from slot 10, the slot of rotation.z.
opacityFromSlot10(h) == Add(Num(Unit \div 2), getRandomValue(h, 10, 1))

opacity(h) == Add(Num(Unit \div 2), getRandomValue(h, 11, 1))

\* geometries[typeIndex] alone, without the || geometries[0] fallback.
geometryNoFallback(t) ==
  IF ~t.nan /\ t.v \in 0..(Len(geometries) - 1) THEN geometries[t.v + 1]
  ELSE "undefined"

\* geometries[typeIndex] || geometries[0]
geometry(t) ==
  IF ~t.nan /\ t.v \in 0..(Len(geometries) - 1) THEN geometries[t.v + 1]
  ELSE geometries[1]

\* Everything one render of the component derives from its hash.
GeometricIdenticon(h) ==
  [ position  |-> position(h),
    typeIndex |-> typeIndex(h),
    scale     |-> scale(h),
    color     |-> color(h),
    rotation  |-> rotation(h),
    wireframe |-> wireframe(typeIndex(h)),
    opacity   |-> opacity(h),
    geometry  |-> geometry(typeIndex(h)) ]

-----------------------------------------------------------------------------
(* GeometricIdenticon (frontend/identicon-frontend/src/app)                  *)

positionFrontend(h) ==
  << Sub(getRandomValueFrontend(h, 1, 10), Num(5 * Unit)),
     Sub(getRandomValueFrontend(h, 2, 10), Num(5 * Unit)),
     Sub(getRandomValueFrontend(h, 3, 10), Num(5 * Unit)) >>

typeIndexFrontend(h) == MathFloor(getRandomValueFrontend(h, 0, 14))

scaleFrontend(h) ==
  << Add(getRandomValueFrontend(h, 4, 4), Num(Unit \div 2)),
     Add(getRandomValueFrontend(h, 5, 4), Num(Unit \div 2)),
     Add(getRandomValueFrontend(h, 6, 4), Num(Unit \div 2)) >>

colorFrontend(h) ==
  [hue |-> getRandomValueFrontend(h, 7, 720), saturation |-> 70, lightness |-> 50]

rotationFrontend(h) ==
  << getRandomValueFrontend(h, 8, 4), getRandomValueFrontend(h, 9, 4),
     getRandomValueFrontend(h, 10, 4) >>

\* switch (typeIndex) { case 0 .. case 6; default: box }
geometryFrontend(t) ==
  IF t.nan THEN "boxGeometry[1,1,1]"
  ELSE CASE t.v = 0 -> "boxGeometry[1,1,1]"
         [] t.v = 1 -> "sphereGeometry[1.5,32,32]"
         [] t.v = 2 -> "coneGeometry[0.5,1,32]"
         [] t.v = 3 -> "torusKnotGeometry[1.5,0.01,100,16]"
         [] t.v = 4 -> "dodecahedronGeometry[0.75,0]"
         [] t.v = 5 -> "octahedronGeometry[0.75,0]"
         [] t.v = 6 -> "tetrahedronGeometry[0.75,0]"
         [] OTHER   -> "boxGeometry[1,1,1]"

opacityFrontend(h) == Add(Num(Unit \div 2), getRandomValueFrontend(h, 11, 1))

GeometricIdenticonFrontend(h) ==
  [ position  |-> positionFrontend(h),
    typeIndex |-> typeIndexFrontend(h),
    scale     |-> scaleFrontend(h),
    color     |-> colorFrontend(h),
    rotation  |-> rotationFrontend(h),
    wireframe |-> wireframe(typeIndexFrontend(h)),
    opacity   |-> opacityFrontend(h),
    geometry  |-> geometryFrontend(typeIndexFrontend(h)) ]

Impls == {"identicon-frontend", "frontend"}

Component(which, h) ==
  IF which = "frontend" THEN GeometricIdenticonFrontend(h) ELSE GeometricIdenticon(h)

-----------------------------------------------------------------------------
(* The page: MainContent / Sidebar mount one GeometricIdenticon per index    *)

amountOfShapes == 10

\* Texts the pages hold: the empty input, forum user names, what the typing
\* animation has typed so far, and a name typed by the user.
Texts == {"", "Alice", "Diana", "Eve", "u", "enter", "enter username :)"}

Init ==
  /\ impl \in Impls
  /\ inputString \in Texts
  /\ index \in 0..(amountOfShapes - 1)
  /\ seed = <<>>
  /\ hash = <<>>
  /\ params = None
  /\ prevHash = <<>>
  /\ prevParams = None
  /\ changedSlot = -1
  /\ home = None
  /\ tree = None
  /\ probe = None
  /\ pc = "page"

\* seed ? Array.from(..., <GeometricIdenticon key={i}
\* seed={generateHash(seed, i)} ... />) : []  -- an empty seed is falsy, and
\* then the list is empty and no component is mounted.
MainContentRender ==
  /\ pc = "page"
  /\ IF inputString = ""
       THEN seed' = <<>> /\ pc' = "nothing"
       ELSE seed' = generateHash(inputString, index) /\ pc' = "mounted"
  /\ UNCHANGED <<home, tree, impl, inputString, index, hash, params, prevHash, prevParams,
                 changedSlot, probe>>

\* The component body: hash = generateHash(seed), then the values memoized on
\* [hash] and the material memoized on [color, typeIndex, hash].
Render ==
  /\ pc = "mounted"
  /\ hash' = generateHashSeed(seed)
  /\ params' = Component(impl, hash')
  /\ pc' = "rendered"
  /\ UNCHANGED <<home, tree, impl, inputString, index, seed, prevHash, prevParams,
                 changedSlot, probe>>

Next == MainContentRender \/ Render

Spec == Init /\ [][Next]_vars

-----------------------------------------------------------------------------
(* Re-render with a seed whose digest differs in one byte                    *)

MaxBaseIndex == 1

DigestBytes == 32

\* str with the two characters of byte slot k replaced by the hex of b.
WithByte(str, k, b) ==
  [str EXCEPT ![2 * k + 1] = HexDigits[(b \div 16) + 1],
              ![2 * k + 2] = HexDigits[(b % 16) + 1]]

InitDigest ==
  /\ impl \in Impls
  /\ inputString = "Alice"
  /\ index \in 0..MaxBaseIndex
  /\ seed = generateHash(inputString, index)
  /\ hash = generateHashSeed(seed)
  /\ params = Component(impl, hash)
  /\ prevHash = <<>>
  /\ prevParams = None
  /\ changedSlot = -1
  /\ home = None
  /\ tree = None
  /\ probe = None
  /\ pc = "rendered"

\* The seed prop changes to a string whose SHA-256 is the current digest with
\* byte k set to b; the seed itself is not carried.  useMemo recomputes hash.
SeedChange(k, b) ==
  /\ pc = "rendered"
  /\ WithByte(hash, k, b) # hash
  /\ prevHash' = hash
  /\ prevParams' = params
  /\ changedSlot' = k
  /\ hash' = WithByte(hash, k, b)
  /\ seed' = <<>>
  /\ pc' = "stale"
  /\ UNCHANGED <<home, tree, impl, inputString, index, params, probe>>

\* The values memoized on [hash] are recomputed from the new hash.
Rederive ==
  /\ pc = "stale"
  /\ params' = Component(impl, hash)
  /\ pc' = "rerendered"
  /\ UNCHANGED <<home, tree, impl, inputString, index, seed, hash, prevHash, prevParams,
                 changedSlot, probe>>

NextDigest ==
  \/ \E k \in 0..(DigestBytes - 1), b \in 0..255 : SeedChange(k, b)
  \/ Rederive

SpecDigest == InitDigest /\ [][NextDigest]_vars

-----------------------------------------------------------------------------
(* getRandomValue and the derivation applied to an arbitrary string          *)

MaxHashLen == 4

MaxSlot == 11

\* Two hex digits that give bytes 0x00 .. 0xff between them, one more hex
\* digit, and a character that is no hex digit.
AnyChars == {"0", "7", "f", "g"}

RECURSIVE StringsOfLength(_)
StringsOfLength(n) ==
  IF n = 0 THEN {<<>>}
  ELSE {Append(s, c) : s \in StringsOfLength(n - 1), c \in AnyChars}

\* A 64-character string with one character that is no hex digit, in slot 7.
MalformedDigest == [generateHashSeed(generateHash("Alice", 0)) EXCEPT ![15] = "g"]

AnyStrings ==
  UNION {StringsOfLength(n) : n \in 0..MaxHashLen} \cup {MalformedDigest}

InitAnyString ==
  /\ impl \in Impls
  /\ inputString = ""
  /\ index = 0
  /\ seed = <<>>
  /\ hash \in AnyStrings
  /\ params = None
  /\ prevHash = <<>>
  /\ prevParams = None
  /\ changedSlot = -1
  /\ home = None
  /\ tree = None
  /\ probe = None
  /\ pc = "given"

\* One call getRandomValue(hash, slot, 1): the offset it slices at, the
\* characters it hands to parseInt, and the value it returns.
CallGetRandomValue(slot) ==
  /\ pc = "given"
  /\ probe' = [ slot  |-> slot,
                start |-> IF impl = "frontend" THEN hashIndexTimes2(hash, slot)
                          ELSE sliceStart(hash, slot),
                text  |-> sliceText(hash, slot),
                value |-> IF impl = "frontend" THEN getRandomValueFrontend(hash, slot, 2)
                          ELSE getRandomValue(hash, slot, 2) ]
  /\ UNCHANGED <<home, tree, impl, inputString, index, seed, hash, params, prevHash,
                 prevParams, changedSlot, pc>>

\* All twelve slots derived from the string as it is.
DeriveAny ==
  /\ pc = "given"
  /\ params' = Component(impl, hash)
  /\ pc' = "derived"
  /\ UNCHANGED <<home, tree, impl, inputString, index, seed, hash, prevHash, prevParams,
                 changedSlot, probe>>

NextAnyString ==
  \/ \E slot \in 0..MaxSlot : CallGetRandomValue(slot)
  \/ DeriveAny

SpecAnyString == InitAnyString /\ [][NextAnyString]_vars

-----------------------------------------------------------------------------
(* getRandomValue on a digest before and after one of its bytes changes      *)

\* The ranges the components pass, doubled: 0.5, 2, 5, 7, 10, 360 (and 2 pi,
\* which in units of pi is the 2 already listed).
Ranges == {1, 4, 10, 14, 20, 720}

InitScalar == InitDigest /\ index = 0

\* getRandomValue(hash, slot, range) for the slot whose byte changed, or that
\* slot plus the number of segments (which wraps to it), on the digest before
\* and after the change.
CallOnChangedSlot(wraps, twiceRange) ==
  /\ pc = "stale"
  /\ LET slot == changedSlot + wraps * (Len(hash) \div 2)
     IN  probe' =
           [ slot   |-> slot,
             range  |-> twiceRange,
             before |-> IF impl = "frontend"
                        THEN getRandomValueFrontend(prevHash, slot, twiceRange)
                        ELSE getRandomValue(prevHash, slot, twiceRange),
             value  |-> IF impl = "frontend"
                        THEN getRandomValueFrontend(hash, slot, twiceRange)
                        ELSE getRandomValue(hash, slot, twiceRange) ]
  /\ pc' = "probed"
  /\ UNCHANGED <<home, tree, impl, inputString, index, seed, hash, params, prevHash,
                 prevParams, changedSlot>>

NextScalar ==
  \/ \E k \in 0..MaxSlot, b \in 0..255 : SeedChange(k, b)
  \/ \E wraps \in 0..1, twiceRange \in Ranges : CallOnChangedSlot(wraps, twiceRange)

SpecScalar == InitScalar /\ [][NextScalar]_vars

-----------------------------------------------------------------------------
(* The strings the generateHash variants hand to SHA-256                     *)

MaxIndex == 120

\* utils generateHash: inputString + index.
concatenatedString(text, i) == text \o NumberToString(i)

\* The typewriter page's generateHash: inputString + index.toString().
preimageIndexToString(text, i) == text \o NumberToString(i)

\* The forum page's generateHash: inputString + index, called with
\* post.username and j.
preimagePlusIndex(text, i) == text \o NumberToString(i)

InitPreimage ==
  /\ impl \in Impls
  /\ inputString \in Texts
  /\ index \in 0..MaxIndex
  /\ seed = <<>>
  /\ hash = <<>>
  /\ params = None
  /\ prevHash = <<>>
  /\ prevParams = None
  /\ changedSlot = -1
  /\ home = None
  /\ tree = None
  /\ probe = None
  /\ pc = "page"

\* Each variant builds the message it hashes for (inputString, index).
BuildPreimages ==
  /\ pc = "page"
  /\ probe' = [ utils      |-> concatenatedString(inputString, index),
                typewriter |-> preimageIndexToString(inputString, index),
                forum      |-> preimagePlusIndex(inputString, index) ]
  /\ pc' = "preimages"
  /\ UNCHANGED <<home, tree, impl, inputString, index, seed, hash, params, prevHash,
                 prevParams, changedSlot>>

NextPreimage == BuildPreimages

SpecPreimage == InitPreimage /\ [][NextPreimage]_vars

-----------------------------------------------------------------------------
(* GeometricIdenticonNew: a head and a ring of primitives                    *)
(* Scale is carried in hundredths, angles in degrees (rotationVariation and  *)
(* rotationAngle are whole degrees), the ring's coordinates as the radius    *)
(* and the angles whose sine and cosine scale it.                            *)

\* String.prototype.substring(start, end) for 0 <= start <= end.
substring(str, start, end) == slice(str, start, end)

\* CryptoJS.SHA256(seed).toString()
hashNew(seedString) == toString(SHA256(Join(seedString)))

\* A modulus applied to a parsed byte (NaN stays NaN).
Modulo(a, n) == IF a.nan THEN NaN ELSE Num(a.v % n)

\* hue = parseInt(hash.substring(0, 2), 16), used as hsl(hue % 360, 70%, 50%);
\* Color(...).getHexString() is that colour in RGB hex and is not expanded.
colorNew(h) ==
  [hue |-> Modulo(parseInt(substring(h, 0, 2)), 360), saturation |-> 70, lightness |-> 50]

baseScale == 10

\* baseScale + (byte % 5) * scaleVariation, scaleVariation = 0.05.
ScaleJitter(byte) ==
  IF byte.nan THEN NaN ELSE Num(baseScale * 100 + (byte.v % 5) * 5)

scaleNew(h) ==
  << ScaleJitter(parseInt(substring(h, 2, 4))),
     ScaleJitter(parseInt(substring(h, 4, 6))),
     ScaleJitter(parseInt(substring(h, 6, 8))) >>

\* Every angle taken modulo 50.
rotationNewAllFifty(h) ==
  << Modulo(parseInt(substring(h, 8, 10)), 50),
     Modulo(parseInt(substring(h, 10, 12)), 50),
     Modulo(parseInt(substring(h, 12, 14)), 50) >>

\* (byte % 40 | 50 | 50) * rotationVariation, rotationVariation = one degree.
rotationNew(h) ==
  << Modulo(parseInt(substring(h, 8, 10)), 40),
     Modulo(parseInt(substring(h, 10, 12)), 50),
     Modulo(parseInt(substring(h, 12, 14)), 50) >>

cylinderHeight == 15

cylinderRadius == 8

numPrimitives == 10

\* rotationAngle = Math.PI / 45, in degrees.
rotationAngle == 180 \div 45

\* The ring entry of index i: angle = (i / numPrimitives) of a full turn,
\* radius = cylinderRadius / 2, x = radius cos(angle), y = radius sin(angle),
\* then y turned about the X axis by rotationAngle; type = i % typeCount.
RingEntry(i, typeCount) ==
  LET angle  == <<i, numPrimitives>>
      radius == cylinderRadius \div 2
  IN  [ x    |-> [radius |-> radius, cosTurn |-> angle],
        y    |-> [radius |-> radius, sinTurn |-> angle, cosDeg |-> rotationAngle],
        z    |-> [radius |-> radius, sinTurn |-> angle, sinDeg |-> rotationAngle],
        type |-> i % typeCount ]

\* A ring whose shape cycles through four types.
primitivePositionsModFour == [j \in 1..numPrimitives |-> RingEntry(j - 1, 4)]

primitivePositions == [j \in 1..numPrimitives |-> RingEntry(j - 1, 3)]

\* pos.type === 0 ? [0.5, 16, 16] : pos.type === 1 ? [1, 1, 1] : [0.5, 1, 16]
geometryArgs(type) ==
  IF type = 0 THEN "[0.5,16,16]" ELSE IF type = 1 THEN "[1,1,1]" ELSE "[0.5,1,16]"

\* createGeometry(type, args), with the branch of the switch that ran.
createGeometry(type, args) ==
  CASE type = 0 -> [branch |-> "case 0", geometry |-> "SphereGeometry" \o args]
    [] type = 1 -> [branch |-> "case 1", geometry |-> "BoxGeometry" \o args]
    [] type = 2 -> [branch |-> "case 2", geometry |-> "ConeGeometry" \o args]
    [] OTHER    -> [branch |-> "default", geometry |-> "SphereGeometry" \o args]

\* One render of the component for the hash of its seed.
GeometricIdenticonNew(h) ==
  [ color        |-> colorNew(h),
    scale        |-> scaleNew(h),
    rotation     |-> rotationNew(h),
    cylinderSize |-> [radius |-> cylinderRadius, height |-> cylinderHeight],
    primitives   |-> primitivePositions,
    meshes       |-> [j \in 1..Len(primitivePositions) |->
                       createGeometry(primitivePositions[j].type,
                                      geometryArgs(primitivePositions[j].type))] ]

InitNew ==
  /\ impl = "GeometricIdenticonNew"
  /\ inputString \in Texts
  /\ index \in 0..(amountOfShapes - 1)
  /\ seed = <<>>
  /\ hash = <<>>
  /\ params = None
  /\ prevHash = <<>>
  /\ prevParams = None
  /\ changedSlot = -1
  /\ home = None
  /\ tree = None
  /\ probe = None
  /\ pc = "page"

\* The component body: the useMemo on [seed] and the ring's meshes.
RenderNew ==
  /\ pc = "mounted"
  /\ hash' = hashNew(seed)
  /\ params' = GeometricIdenticonNew(hash')
  /\ pc' = "rendered"
  /\ UNCHANGED <<home, tree, impl, inputString, index, seed, prevHash, prevParams,
                 changedSlot, probe>>

NextNew == MainContentRender \/ RenderNew

SpecNew == InitNew /\ [][NextNew]_vars

-----------------------------------------------------------------------------
(* The Home page: inputString, seed, isTyping, the typing interval           *)
(* Home's strings are sequences of one-character strings.  A state update    *)
(* re-renders the page at once and leaves the effects whose dependency       *)
(* changed pending; timer ticks and input events may come before they run.   *)

\* "enter username :)"
TypingMessage ==
  << "e", "n", "t", "e", "r", " ", "u", "s", "e", "r", "n", "a", "m", "e",
     " ", ":", ")" >>

\* What the user can leave in the input field after one change event (an
\* event that comes only with a value other than the one shown).
UserTexts == { <<>>, <<"u">>, <<"e", "n">> }

\* useState<string | null>: null, or a string.
Null == [isNull |-> TRUE, value |-> <<>>]

String(s) == [isNull |-> FALSE, value |-> s]

InitHome ==
  /\ impl = "identicon-frontend"
  /\ inputString = ""
  /\ index = 0
  /\ seed = <<>>
  /\ hash = <<>>
  /\ params = None
  /\ prevHash = <<>>
  /\ prevParams = None
  /\ changedSlot = -1
  /\ probe = None
  /\ pc = "home"
  /\ tree = None
  /\ home = [ inputString |-> <<>>,
              seed        |-> Null,
              isTyping    |-> TRUE,
              rotate      |-> FALSE,
              interval    |-> FALSE,
              effects     |-> {"isTyping", "inputString"},
              interacted  |-> FALSE,
              lastEvent   |-> "mount" ]

\* Everything outside the Home page.
componentVars ==
  <<impl, inputString, index, seed, hash, params, prevHash, prevParams,
    changedSlot, probe, pc, tree>>

\* An updater that keeps the full message in the field.
nextInputStringNoReset(prev) ==
  IF Len(prev) < Len(TypingMessage)
    THEN Append(prev, TypingMessage[Len(prev) + 1])
    ELSE prev

\* The updater of the interval: nextChar = message[prev.length];
\* nextChar ? prev + nextChar : ''.
nextInputString(prev) ==
  IF Len(prev) < Len(TypingMessage)
    THEN Append(prev, TypingMessage[Len(prev) + 1])
    ELSE <<>>

\* The pending effects of the last render run, in the order of their
\* declaration: the [isTyping] effect clears the interval of its previous
\* run and sets one if isTyping; the [inputString] effect does
\* if (inputString) setSeed(inputString).
flushPassiveEffects(h) ==
  [h EXCEPT
     !.interval = IF "isTyping" \in h.effects THEN h.isTyping ELSE @,
     !.seed = IF "inputString" \in h.effects /\ h.inputString # <<>>
                THEN String(h.inputString) ELSE @,
     !.effects = {}]

\* The effects whose dependency differs between two renders.
changedDeps(old, new) ==
  (IF new.isTyping # old.isTyping THEN {"isTyping"} ELSE {})
    \cup (IF new.inputString # old.inputString THEN {"inputString"} ELSE {})

\* A render that leaves its effects to the scheduler.
commitDeferred(h) == h

\* The commit of a render caused by a discrete input event (change, focus,
\* click): its effects run before the event's task ends.
commitDiscrete(h) == flushPassiveEffects(h)

\* A state update and its render: the effects still pending from the
\* previous render run first, then the state changes and the effects whose
\* dependency changed become pending.
settled == flushPassiveEffects(home)

render(event, after) ==
  [after EXCEPT !.effects = changedDeps(settled, after),
                !.lastEvent = event]

\* One firing of the 200 ms interval while it is set.
IntervalTick ==
  /\ pc = "home"
  /\ home.interval
  /\ home' = render("IntervalTick",
                    [settled EXCEPT !.inputString = nextInputString(@)])
  /\ UNCHANGED componentVars

\* handleInputChange: setIsTyping(false); setInputString(e.target.value).
handleInputChange(value) ==
  /\ pc = "home"
  /\ value # home.inputString
  /\ home' = commitDiscrete(
               render("handleInputChange",
                      [settled EXCEPT !.isTyping = FALSE,
                                           !.inputString = value,
                                           !.interacted = TRUE]))
  /\ UNCHANGED componentVars

\* onFocus of the input: setIsTyping(false).
onFocus ==
  /\ pc = "home"
  /\ home' = commitDiscrete(
               render("onFocus",
                      [settled EXCEPT !.isTyping = FALSE,
                                           !.interacted = TRUE]))
  /\ UNCHANGED componentVars

\* onClick of the rotation button: setRotate(!rotate).
onClickRotate ==
  /\ pc = "home"
  /\ home' = commitDiscrete(
               render("onClickRotate", [settled EXCEPT !.rotate = ~@]))
  /\ UNCHANGED componentVars

\* The scheduler runs the effects left pending by the mount or by a tick.
RunEffects ==
  /\ pc = "home"
  /\ home.effects # {}
  /\ home' = [flushPassiveEffects(home) EXCEPT !.lastEvent = "RunEffects"]
  /\ UNCHANGED componentVars

NextHome ==
  \/ IntervalTick
  \/ \E value \in UserTexts : handleInputChange(value)
  \/ onFocus
  \/ onClickRotate
  \/ RunEffects

SpecHome == InitHome /\ [][NextHome]_vars

\* The interval keeps firing while it is set, and pending effects run.
SpecHomeFair ==
  SpecHome /\ WF_vars(IntervalTick) /\ WF_vars(RunEffects)

-----------------------------------------------------------------------------
(* The useMemo cells of MainContent and of one GeometricIdenticon            *)
(* MainContent's seed is carried in inputString ("" stands for no seed: null *)
(* and '' are both falsy), its rotate prop in tree.rotate.                   *)

\* A cell that has not been computed yet.
NoCell == [set |-> FALSE, deps |-> <<>>, value |-> None]

\* A useMemo that keeps its first value whatever its dependencies.
useMemoFirstValue(cell, value, deps) ==
  IF cell.set THEN cell ELSE [set |-> TRUE, deps |-> deps, value |-> value]

\* useMemo(() => value, deps): the cached value while the dependencies are
\* the ones it was computed for.
useMemo(cell, value, deps) ==
  IF cell.set /\ cell.deps = deps
    THEN cell
    ELSE [set |-> TRUE, deps |-> deps, value |-> value]

\* The list that MainContent builds for a seed and a rotate flag.
identiconsFor(text, rotate) ==
  IF text = ""
    THEN <<>>
    ELSE [j \in 1..amountOfShapes |->
            [seed |-> generateHash(text, j - 1), rotate |-> rotate]]

\* <meshStandardMaterial color wireframe transparent opacity />
materialFor(which, c, t, h) ==
  [color |-> c, wireframe |-> wireframe(t), opacity |-> Component(which, h).opacity]

\* One render of GeometricIdenticon over its cells of the previous render.
renderGeometricIdenticon(which, cells, seedProp) ==
  LET hashCell      == useMemo(cells.hash, generateHashSeed(seedProp), <<seedProp>>)
      h             == hashCell.value
      positionCell  == useMemo(cells.position, Component(which, h).position, <<h>>)
      typeIndexCell == useMemo(cells.typeIndex, Component(which, h).typeIndex, <<h>>)
      scaleCell     == useMemo(cells.scale, Component(which, h).scale, <<h>>)
      colorCell     == useMemo(cells.color, Component(which, h).color, <<h>>)
      rotationCell  == useMemo(cells.rotation, Component(which, h).rotation, <<h>>)
      materialCell  == useMemo(cells.material,
                               materialFor(which, colorCell.value, typeIndexCell.value, h),
                               <<colorCell.value, typeIndexCell.value, h>>)
  IN  [ hash |-> hashCell, position |-> positionCell, typeIndex |-> typeIndexCell,
        scale |-> scaleCell, color |-> colorCell, rotation |-> rotationCell,
        material |-> materialCell ]

\* A GeometricIdenticon that is not mounted.
unmounted ==
  [ hash |-> NoCell, position |-> NoCell, typeIndex |-> NoCell, scale |-> NoCell,
    color |-> NoCell, rotation |-> NoCell, material |-> NoCell ]

\* The usernames of forumPosts, in order.
forumPosts == << "Quiznos", "Boberta", "Charlie", "Diana", "Eve" >>

Usernames == {forumPosts[i] : i \in 1..Len(forumPosts)}

\* Sidebar's own amountOfShapes.
amountOfShapesSidebar == 10

\* Shapes whose derived seeds come in descending order of their index.
sidebarShapesReversed(username, rotate) ==
  [j \in 1..amountOfShapesSidebar |->
     [seed |-> generateHash(username, amountOfShapesSidebar - j), rotate |-> rotate]]

\* The props of the GeometricIdenticon elements Sidebar builds for one post.
sidebarShapes(username, rotate) ==
  [j \in 1..amountOfShapesSidebar |->
     [seed |-> generateHash(username, j - 1), rotate |-> rotate]]

\* forumPosts.map((post, i) => ...)
renderSidebar(rotate) ==
  [i \in 1..Len(forumPosts) |-> sidebarShapes(forumPosts[i], rotate)]

\* One render of MainContent and of the child with key index.
renderMainContent(t, text, rotate) ==
  LET identicons == useMemo(t.identicons, identiconsFor(text, rotate), <<text, rotate>>)
  IN  [ rotate     |-> rotate,
        identicons |-> identicons,
        child      |-> IF identicons.value = <<>>
                         THEN unmounted
                         ELSE renderGeometricIdenticon(impl, t.child,
                                                       identicons.value[index + 1].seed) ]

\* One render of Home: Sidebar and MainContent.  reseeded records that one
\* seed has replaced another.
renderHome(t, text, rotate) ==
  LET main == renderMainContent(t, text, rotate)
  IN  [ rotate     |-> main.rotate,
        identicons |-> main.identicons,
        child      |-> main.child,
        sidebar    |-> renderSidebar(rotate),
        reseeded   |-> FALSE ]

\* The child that is followed is the first, a middle or the last of the list.
InitMemo ==
  /\ impl \in Impls
  /\ inputString = ""
  /\ index \in {0, amountOfShapes \div 2, amountOfShapes - 1}
  /\ seed = <<>>
  /\ hash = <<>>
  /\ params = None
  /\ prevHash = <<>>
  /\ prevParams = None
  /\ changedSlot = -1
  /\ home = None
  /\ probe = None
  /\ pc = "memo"
  /\ tree = renderHome([identicons |-> NoCell, child |-> unmounted], "", FALSE)

\* Home's setSeed(text) with a new text, and the render that follows.
setSeed(text) ==
  /\ pc = "memo"
  /\ text # inputString
  /\ inputString' = text
  /\ tree' = [renderHome(tree, text, tree.rotate) EXCEPT
                !.reseeded = tree.reseeded \/ inputString # ""]
  /\ seed' = IF tree'.identicons.value = <<>>
               THEN <<>> ELSE tree'.identicons.value[index + 1].seed
  /\ hash' = IF tree'.child.hash.set THEN tree'.child.hash.value ELSE <<>>
  /\ UNCHANGED <<impl, index, params, prevHash, prevParams, changedSlot, probe,
                 pc, home>>

\* setRotate(!rotate), and the render that follows.
setRotate ==
  /\ pc = "memo"
  /\ tree' = [renderHome(tree, inputString, ~tree.rotate) EXCEPT
                !.reseeded = tree.reseeded]
  /\ UNCHANGED <<impl, inputString, index, seed, hash, params, prevHash,
                 prevParams, changedSlot, probe, pc, home>>

NextMemo ==
  \/ \E text \in (Texts \ {""}) \cup Usernames : setSeed(text)
  \/ setRotate

SpecMemo == InitMemo /\ [][NextMemo]_vars

-----------------------------------------------------------------------------
(* The mesh of one GeometricIdenticon (identicon-frontend) and useFrame      *)
(* mesh.rotation is the mesh's own Euler: the renderer copies the rotation   *)
(* prop into it when the prop is a new object, useFrame writes into it.  It  *)
(* is carried as the seed-derived angles plus the sine terms added to them.  *)
(* The clock counts quarter turns (pi / 2) of elapsed time.                  *)

MaxClock == 12

FrameTexts == {"Alice", "Eve"}

MaxFrameIndex == 1

\* amplitude * Math.sin(time / divisor), amplitude in hundredths; the sine's
\* argument in twelfths of pi: time, time / 1.5 and time / 2.
frameOffset(time) ==
  << [amplitude |-> 15, sinOf |-> 6 * time],
     [amplitude |-> 20, sinOf |-> 4 * time],
     [amplitude |-> 20, sinOf |-> 3 * time] >>

\* sin(k * pi / 12) = 0 exactly for k a multiple of 12.
IsZeroOffset(offset) == \A a \in 1..3 : offset[a].sinOf % 12 = 0

\* The rotation prop reaches the mesh only when it is another object than in
\* the previous render; then mesh.rotation.copy(rotation).
applyRotationProp(mesh, previous, current) ==
  IF current = previous
    THEN mesh
    ELSE [rotation |-> [base |-> current.value, offset |-> frameOffset(0)]]

InitFrame ==
  /\ impl = "identicon-frontend"
  /\ inputString \in FrameTexts
  /\ index \in 0..MaxFrameIndex
  /\ seed = generateHash(inputString, index)
  /\ hash = generateHashSeed(seed)
  /\ params = None
  /\ prevHash = <<>>
  /\ prevParams = None
  /\ changedSlot = -1
  /\ home = None
  /\ probe = None
  /\ pc = "frame"
  /\ LET child == renderGeometricIdenticon(impl, unmounted, seed)
     IN  tree = [ rotate |-> FALSE,
                  child  |-> child,
                  mesh   |-> applyRotationProp(None, NoCell, child.rotation),
                  clock  |-> 0 ]

\* The seed of MainContent changes: the component renders with its new seed
\* prop and the renderer applies the props that changed.
changeSeed(text) ==
  /\ pc = "frame"
  /\ text # inputString
  /\ inputString' = text
  /\ seed' = generateHash(text, index)
  /\ LET child == renderGeometricIdenticon(impl, tree.child, seed')
     IN  /\ hash' = child.hash.value
         /\ tree' = [tree EXCEPT
                       !.child = child,
                       !.mesh = applyRotationProp(@, tree.child.rotation, child.rotation)]
  /\ prevHash' = hash
  /\ UNCHANGED <<impl, index, params, prevParams, changedSlot, probe, pc, home>>

\* The rotation button: setRotate(!rotate); the component renders with the
\* same seed and the new rotate prop.
toggleRotate ==
  /\ pc = "frame"
  /\ LET child == renderGeometricIdenticon(impl, tree.child, seed)
     IN  tree' = [tree EXCEPT
                    !.rotate = ~@,
                    !.child = child,
                    !.mesh = applyRotationProp(@, tree.child.rotation, child.rotation)]
  /\ UNCHANGED <<impl, inputString, index, seed, hash, params, prevHash,
                 prevParams, changedSlot, probe, pc, home>>

\* One frame: if (ref.current && rotate) ref.current.rotation.set(
\* rotation.x + sin(time) * 0.15, ...).
useFrame ==
  /\ pc = "frame"
  /\ tree.clock < MaxClock
  /\ tree' = [tree EXCEPT
                !.clock = @ + 1,
                !.mesh = IF tree.rotate
                           THEN [rotation |-> [base   |-> tree.child.rotation.value,
                                               offset |-> frameOffset(tree.clock + 1)]]
                           ELSE @]
  /\ UNCHANGED <<impl, inputString, index, seed, hash, params, prevHash,
                 prevParams, changedSlot, probe, pc, home>>

NextFrame ==
  \/ \E text \in FrameTexts : changeSeed(text)
  \/ toggleRotate
  \/ useFrame

SpecFrame == InitFrame /\ [][NextFrame]_vars

-----------------------------------------------------------------------------
(* The showcase-strings Home page: one effect, an interval or a timeout      *)
(* A timer carries the inputString and currentStringIndex of the render      *)
(* whose effect set it: its callback reads them from its closure.            *)

showcaseStrings ==
  <<
     \* "enter username :)"
     << "e", "n", "t", "e", "r", " ", "u", "s", "e", "r", "n", "a", "m",
        "e", " ", ":", ")" >>,
     \* "identicons are unique!"
     << "i", "d", "e", "n", "t", "i", "c", "o", "n", "s", " ", "a", "r",
        "e", " ", "u", "n", "i", "q", "u", "e", "!" >>,
     \* "type a name and see magic!"
     << "t", "y", "p", "e", " ", "a", " ", "n", "a", "m", "e", " ", "a",
        "n", "d", " ", "s", "e", "e", " ", "m", "a", "g", "i", "c", "!" >>,
     \* "create your own identicons"
     << "c", "r", "e", "a", "t", "e", " ", "y", "o", "u", "r", " ", "o",
        "w", "n", " ", "i", "d", "e", "n", "t", "i", "c", "o", "n", "s" >>,
     \* "have fun with 3D visuals"
     << "h", "a", "v", "e", " ", "f", "u", "n", " ", "w", "i", "t", "h",
        " ", "3", "D", " ", "v", "i", "s", "u", "a", "l", "s" >>
  >>

typingInterval == 100

pauseBeforeRestart == 2000

NoTimer == [kind |-> "none", delay |-> 0, inputString |-> <<>>, currentStringIndex |-> 0]

\* The effect on [inputString, isTyping, currentStringIndex]: the clean-up
\* of its previous run clears that run's timer; then !isTyping sets the
\* restart timeout, isTyping sets the typing interval.
runEffectShowcase(h) ==
  [h EXCEPT
     !.timer = [ kind               |-> IF h.isTyping THEN "interval" ELSE "timeout",
                 delay              |-> IF h.isTyping THEN typingInterval
                                                     ELSE pauseBeforeRestart,
                 inputString        |-> h.inputString,
                 currentStringIndex |-> h.currentStringIndex ],
     !.effect = FALSE]

\* The page with the effect of its last render run, if it was pending.
settledShowcase == IF home.effect THEN runEffectShowcase(home) ELSE home

\* A state update and its render: the effect is pending when one of its
\* dependencies changed.
renderShowcase(event, after) ==
  [after EXCEPT
     !.effect = \/ after.inputString # settledShowcase.inputString
                \/ after.isTyping # settledShowcase.isTyping
                \/ after.currentStringIndex # settledShowcase.currentStringIndex,
     !.lastEvent = event]

\* A commit caused by a discrete input event runs its effect at once.
commitDiscreteShowcase(h) == IF h.effect THEN runEffectShowcase(h) ELSE h

InitShowcase ==
  /\ impl = "identicon-frontend"
  /\ inputString = ""
  /\ index = 0
  /\ seed = <<>>
  /\ hash = <<>>
  /\ params = None
  /\ prevHash = <<>>
  /\ prevParams = None
  /\ changedSlot = -1
  /\ tree = None
  /\ probe = None
  /\ pc = "showcase"
  /\ home = [ inputString        |-> <<>>,
              isTyping           |-> TRUE,
              isHovered          |-> FALSE,
              currentStringIndex |-> 0,
              timer              |-> NoTimer,
              effect             |-> TRUE,
              edited             |-> FALSE,
              lastEvent          |-> "mount" ]

\* The interval fires: typeChar, with the inputString and the
\* currentStringIndex of its closure.
typeChar ==
  /\ pc = "showcase"
  /\ home.timer.kind = "interval"
  /\ LET currentString == showcaseStrings[home.timer.currentStringIndex + 1]
         length        == Len(home.timer.inputString)
     IN  home' = renderShowcase("typeChar",
                   IF length < Len(currentString)
                     THEN [settledShowcase EXCEPT
                             !.inputString = SubSeq(currentString, 1, length + 1),
                             !.edited = FALSE]
                     ELSE [settledShowcase EXCEPT !.isTyping = FALSE])
  /\ UNCHANGED componentVars

\* The timeout fires, once: setInputString(''); setIsTyping(true);
\* setCurrentStringIndex((currentStringIndex + 1) % showcaseStrings.length).
restartTimeout ==
  /\ pc = "showcase"
  /\ home.timer.kind = "timeout"
  /\ home' = renderShowcase("restartTimeout",
               [settledShowcase EXCEPT
                  !.inputString = <<>>,
                  !.isTyping = TRUE,
                  !.currentStringIndex =
                     (home.timer.currentStringIndex + 1) % Len(showcaseStrings),
                  !.edited = FALSE,
                  !.timer = IF home.effect THEN @ ELSE NoTimer])
  /\ UNCHANGED componentVars

\* handleInputChange: setIsTyping(false); setInputString(e.target.value).
handleInputChangeShowcase(value) ==
  /\ pc = "showcase"
  /\ value # home.inputString
  /\ home' = commitDiscreteShowcase(
               renderShowcase("handleInputChange",
                 [settledShowcase EXCEPT !.isTyping = FALSE,
                                         !.inputString = value,
                                         !.edited = TRUE]))
  /\ UNCHANGED componentVars

\* handleMouseEnter: setIsHovered(true); setIsTyping(false).
handleMouseEnter ==
  /\ pc = "showcase"
  /\ ~home.isHovered
  /\ home' = commitDiscreteShowcase(
               renderShowcase("handleMouseEnter",
                 [settledShowcase EXCEPT !.isHovered = TRUE, !.isTyping = FALSE]))
  /\ UNCHANGED componentVars

\* handleMouseLeave: setIsHovered(false);
\* if (inputString === '') setIsTyping(true).
handleMouseLeave ==
  /\ pc = "showcase"
  /\ home.isHovered
  /\ home' = commitDiscreteShowcase(
               renderShowcase("handleMouseLeave",
                 [settledShowcase EXCEPT
                    !.isHovered = FALSE,
                    !.isTyping = IF settledShowcase.inputString = <<>> THEN TRUE ELSE @]))
  /\ UNCHANGED componentVars

\* onFocus: setIsTyping(false).
onFocusShowcase ==
  /\ pc = "showcase"
  /\ home' = commitDiscreteShowcase(
               renderShowcase("onFocus", [settledShowcase EXCEPT !.isTyping = FALSE]))
  /\ UNCHANGED componentVars

\* The scheduler runs the effect left pending by the mount or by a timer.
RunEffectShowcase ==
  /\ pc = "showcase"
  /\ home.effect
  /\ home' = [runEffectShowcase(home) EXCEPT !.lastEvent = "RunEffect"]
  /\ UNCHANGED componentVars

NextShowcase ==
  \/ typeChar
  \/ restartTimeout
  \/ \E value \in UserTexts : handleInputChangeShowcase(value)
  \/ handleMouseEnter
  \/ handleMouseLeave
  \/ onFocusShowcase
  \/ RunEffectShowcase

SpecShowcase == InitShowcase /\ [][NextShowcase]_vars

-----------------------------------------------------------------------------
(* The single-message typewriter Home page                                   *)
(* The interval carries the inputString of the render whose effect set it    *)
(* (typewriterEffect reads it from its closure); the reset timeouts are      *)
(* counted, none of them is ever cleared.  The effects of a render run       *)
(* before the next timer fires: the timers are 200 ms and 1000 ms apart.     *)

MaxTimeouts == 3

\* "enter username :)", the same text as on the Home page above.
showcaseString == TypingMessage

NoInterval == [set |-> FALSE, inputString |-> <<>>]

\* A render after a state update, with its effects: the effect on
\* [inputString, isTyping] clears the interval of its previous run and sets
\* one if isTyping; the effect on [inputString] does
\* if (inputString.length > 0) setSeed(inputString).
renderTypewriter(event, after) ==
  [after EXCEPT
     !.interval = IF after.inputString # home.inputString \/ after.isTyping # home.isTyping
                    THEN IF after.isTyping
                           THEN [set |-> TRUE, inputString |-> after.inputString]
                           ELSE NoInterval
                    ELSE @,
     !.seed = IF after.inputString # home.inputString /\ Len(after.inputString) > 0
                THEN String(after.inputString) ELSE @,
     !.lastEvent = event]

\* The page after its mount effects: the interval is set, the seed is null.
InitTypewriter ==
  /\ impl = "identicon-frontend"
  /\ inputString = ""
  /\ index = 0
  /\ seed = <<>>
  /\ hash = <<>>
  /\ params = None
  /\ prevHash = <<>>
  /\ prevParams = None
  /\ changedSlot = -1
  /\ tree = None
  /\ probe = None
  /\ pc = "typewriter"
  /\ home = [ inputString |-> <<>>,
              seed        |-> Null,
              isTyping    |-> TRUE,
              interval    |-> [set |-> TRUE, inputString |-> <<>>],
              timeouts    |-> 0,
              interacted  |-> FALSE,
              lastEvent   |-> "mount" ]

\* The 200 ms interval fires: typewriterEffect.  nextChar is read at the
\* length of the closure's inputString; without a nextChar one more reset
\* timeout is set.
typewriterEffect ==
  /\ pc = "typewriter"
  /\ home.interval.set
  /\ LET length == Len(home.interval.inputString)
     IN  IF length < Len(showcaseString)
           THEN home' = renderTypewriter("typewriterEffect",
                          [home EXCEPT !.inputString =
                                          Append(@, showcaseString[length + 1])])
           ELSE /\ home.timeouts < MaxTimeouts
                /\ home' = [home EXCEPT !.timeouts = @ + 1,
                                        !.lastEvent = "typewriterEffect"]
  /\ UNCHANGED componentVars

\* One reset timeout fires, 1000 ms after it was set: setInputString('').
resetTimeout ==
  /\ pc = "typewriter"
  /\ home.timeouts > 0
  /\ home' = renderTypewriter("resetTimeout",
               [home EXCEPT !.inputString = <<>>, !.timeouts = @ - 1])
  /\ UNCHANGED componentVars

\* handleInputChange: setIsTyping(false); setInputString(e.target.value).
handleInputChangeTypewriter(value) ==
  /\ pc = "typewriter"
  /\ value # home.inputString
  /\ home' = renderTypewriter("handleInputChange",
               [home EXCEPT !.isTyping = FALSE, !.inputString = value,
                            !.interacted = TRUE])
  /\ UNCHANGED componentVars

\* handleInputFocus: setIsTyping(false).
handleInputFocus ==
  /\ pc = "typewriter"
  /\ home' = renderTypewriter("handleInputFocus",
               [home EXCEPT !.isTyping = FALSE, !.interacted = TRUE])
  /\ UNCHANGED componentVars

NextTypewriter ==
  \/ typewriterEffect
  \/ resetTimeout
  \/ \E value \in UserTexts : handleInputChangeTypewriter(value)
  \/ handleInputFocus

SpecTypewriter == InitTypewriter /\ [][NextTypewriter]_vars

-----------------------------------------------------------------------------
(* canvasRefs, the container refs and captureIdenticon                       *)
(* canvasRefs.current is a sequence of containers; index i of the code is    *)
(* position i + 1.  Every ref callback is an inline arrow function, so each  *)
(* render calls the previous render's callback with null and the new one     *)
(* with the element.                                                         *)

MaxRenders == 2

\* The choices of both size menus.
sizes == <<16, 32, 64, 128, 256, 512>>

null == [isNull |-> TRUE, className |-> "", key |-> -1]

\* The container div of post i in Sidebar.
forumIdenticonContainer(i) ==
  [isNull |-> FALSE, className |-> "forum-identicon-container", key |-> i]

\* The container div of MainContent.
canvasContainer == [isNull |-> FALSE, className |-> "canvas-container", key |-> -1]

\* Sidebar's callbacks, canvasRefs.current[i] = el for each post i, then
\* MainContent's, canvasRefs.current[canvasRefs.current.length] = el.
callRefs(refs, sidebarEls, mainEl) ==
  LET n      == Len(sidebarEls)
      length == IF Len(refs) > n THEN Len(refs) ELSE n
  IN  Append([k \in 1..length |-> IF k <= n THEN sidebarEls[k] ELSE refs[k]],
             mainEl)

\* The previous render's callbacks are called with null.
detachRefs(refs) ==
  callRefs(refs, [k \in 1..Len(forumPosts) |-> null], null)

\* This render's callbacks are called with their elements.
attachRefs(refs) ==
  callRefs(refs, [k \in 1..Len(forumPosts) |-> forumIdenticonContainer(k - 1)],
           canvasContainer)

\* A re-render of Home, Sidebar and MainContent.
commitRefs(refs) == attachRefs(detachRefs(refs))

NoLink == [download |-> "", width |-> 0, height |-> 0]

\* captureIdenticon that does not look at the container.
captureIdenticonUnchecked(i, size, refs, hasCanvas, hasContext) ==
  [ canvasRefs |-> refs,
    console    |-> "",
    clicked    |-> TRUE,
    link       |-> [ download |-> "identicon-" \o NumberToString(size) \o "x"
                                    \o NumberToString(size) \o ".png",
                     width |-> size, height |-> size ] ]

\* captureIdenticon(index, size, canvasRefs); hasCanvas is whether the
\* container holds a canvas element, hasContext whether getContext('2d')
\* returns a context for the resized canvas.
captureIdenticon(i, size, refs, hasCanvas, hasContext) ==
  IF i < 0 \/ i >= Len(refs) \/ refs[i + 1].isNull
    THEN [ canvasRefs |-> refs, console |-> "warn: No canvas container found",
           clicked |-> FALSE, link |-> NoLink ]
  ELSE IF ~hasCanvas
    THEN [ canvasRefs |-> refs, console |-> "warn: No canvas element found",
           clicked |-> FALSE, link |-> NoLink ]
  ELSE IF ~hasContext
    THEN [ canvasRefs |-> refs, console |-> "error: Failed to get 2D context",
           clicked |-> FALSE, link |-> NoLink ]
  ELSE [ canvasRefs |-> refs,
         console    |-> "",
         clicked    |-> TRUE,
         link       |-> [ download |-> "identicon-" \o NumberToString(size) \o "x"
                                         \o NumberToString(size) \o ".png",
                          width |-> size, height |-> size ] ]

\* Home after its mount: the refs were attached to an empty array.
InitCapture ==
  /\ impl = "identicon-frontend"
  /\ inputString = ""
  /\ index = 0
  /\ seed = <<>>
  /\ hash = <<>>
  /\ params = None
  /\ prevHash = <<>>
  /\ prevParams = None
  /\ changedSlot = -1
  /\ tree = None
  /\ probe = None
  /\ pc = "capture"
  /\ home = [ canvasRefs      |-> attachRefs(<<>>),
              dropdownVisible |-> {},
              renders         |-> 0 ]

\* Any state update of Home (a tick of the typing animation, an edit, the
\* rotation button): Home, Sidebar and MainContent render again.  The record
\* of the last captureIdenticon call is dropped by a render.
reRender ==
  /\ pc = "capture"
  /\ home.renders < MaxRenders
  /\ home' = [home EXCEPT !.canvasRefs = commitRefs(@), !.renders = @ + 1]
  /\ probe' = None
  /\ UNCHANGED <<impl, inputString, index, seed, hash, params, prevHash,
                 prevParams, changedSlot, pc, tree>>

\* The Download button of post i in Sidebar:
\* setDropdownVisible(prev => ({ ...prev, [i]: !prev[i] })).
toggleDropdown(i) ==
  /\ pc = "capture"
  /\ home.renders < MaxRenders
  /\ home' = [home EXCEPT
                !.dropdownVisible = IF i \in @ THEN @ \ {i} ELSE @ \cup {i},
                !.canvasRefs = commitRefs(@),
                !.renders = @ + 1]
  /\ probe' = None
  /\ UNCHANGED <<impl, inputString, index, seed, hash, params, prevHash,
                 prevParams, changedSlot, pc, tree>>

\* The Download Identicon button of MainContent:
\* captureIdenticon(canvasRefs.current.length - 1, selectedSize, canvasRefs).
downloadMainContent(size, hasCanvas, hasContext) ==
  /\ pc = "capture"
  /\ LET result == captureIdenticon(Len(home.canvasRefs) - 1, size, home.canvasRefs,
                                    hasCanvas, hasContext)
     IN  /\ probe' = [ caller |-> "MainContent",
                       index |-> Len(home.canvasRefs) - 1, size |-> size,
                       before |-> home.canvasRefs, hasCanvas |-> hasCanvas,
                       hasContext |-> hasContext, result |-> result ]
         /\ home' = [home EXCEPT !.canvasRefs = result.canvasRefs]
  /\ UNCHANGED <<impl, inputString, index, seed, hash, params, prevHash,
                 prevParams, changedSlot, pc, tree>>

\* The Download button in the open menu of post i: the menu closes,
\* captureIdenticon(i, selectedSizes[i], canvasRefs) runs, Home renders.
downloadSidebar(i, size, hasCanvas, hasContext) ==
  /\ pc = "capture"
  /\ i \in home.dropdownVisible
  /\ home.renders < MaxRenders
  /\ LET result == captureIdenticon(i, size, home.canvasRefs, hasCanvas, hasContext)
     IN  /\ probe' = [ caller |-> "Sidebar",
                       index |-> i, size |-> size,
                       before |-> home.canvasRefs, hasCanvas |-> hasCanvas,
                       hasContext |-> hasContext, result |-> result ]
         /\ home' = [home EXCEPT
                       !.dropdownVisible = @ \ {i},
                       !.canvasRefs = commitRefs(result.canvasRefs),
                       !.renders = @ + 1]
  /\ UNCHANGED <<impl, inputString, index, seed, hash, params, prevHash,
                 prevParams, changedSlot, pc, tree>>

\* The longest canvasRefs.current can get within MaxRenders renders.
MaxRefsLength == Len(forumPosts) + 1 + 2 * MaxRenders

\* captureIdenticon called with any index, in range or not.
callCaptureIdenticon(i, size, hasCanvas, hasContext) ==
  /\ pc = "capture"
  /\ i <= Len(home.canvasRefs)
  /\ LET result == captureIdenticon(i, size, home.canvasRefs, hasCanvas, hasContext)
     IN  /\ probe' = [ caller |-> "",
                       index |-> i, size |-> size,
                       before |-> home.canvasRefs, hasCanvas |-> hasCanvas,
                       hasContext |-> hasContext, result |-> result ]
         /\ home' = [home EXCEPT !.canvasRefs = result.canvasRefs]
  /\ UNCHANGED <<impl, inputString, index, seed, hash, params, prevHash,
                 prevParams, changedSlot, pc, tree>>

NextCapture ==
  \/ reRender
  \/ \E i \in (-1)..MaxRefsLength, k \in 1..Len(sizes),
        hasCanvas \in BOOLEAN, hasContext \in BOOLEAN :
       callCaptureIdenticon(i, sizes[k], hasCanvas, hasContext)
  \/ \E i \in 0..(Len(forumPosts) - 1) : toggleDropdown(i)
  \/ \E k \in 1..Len(sizes), hasCanvas \in BOOLEAN, hasContext \in BOOLEAN :
       downloadMainContent(sizes[k], hasCanvas, hasContext)
  \/ \E i \in 0..(Len(forumPosts) - 1), k \in 1..Len(sizes),
        hasCanvas \in BOOLEAN, hasContext \in BOOLEAN :
       downloadSidebar(i, sizes[k], hasCanvas, hasContext)

SpecCapture == InitCapture /\ [][NextCapture]_vars

-----------------------------------------------------------------------------
(* Properties                                                                *)

\* The byte of a well-formed digest at slot k.
ByteAt(str, k) == HexValue(str[2 * k + 1]) * 16 + HexValue(str[2 * k + 2])

IsDigest(str) == Len(str) = 64 /\ \A j \in 1..64 : IsHexDigit(str[j])

NumVariants == 7

\* The ordinal, 0 .. 6, of the shape variant that a rendered geometry is.
VariantOrdinal(g) == CHOOSE k \in 0..(NumVariants - 1) : geometries[k + 1] = g

\* C1: for every well-formed digest the shape selector typeIndex is one of
\* the 7 variant ordinals 0 .. 6.
C1_TypeIndexIsVariantOrdinal ==
  pc = "rendered" =>
    /\ ~params.typeIndex.nan
    /\ params.typeIndex.v \in 0..(NumVariants - 1)

\* C2: the wireframe flag is true exactly when the ordinal of the shape
\* variant that is rendered is even.
C2_WireframeIffRenderedOrdinalEven ==
  pc = "rendered" =>
    (params.wireframe <=> (VariantOrdinal(params.geometry) % 2 = 0))

\* C3: the hue lies in [0, 360); it is never 360.
C3_HueBelow360 ==
  pc = "rendered" =>
    /\ ~params.color.hue.nan
    /\ 0 <= params.color.hue.v
    /\ params.color.hue.v < 360 * Unit

\* C4: each rotation angle lies in [0, 2 pi): less than one full turn.
C4_RotationBelowFullTurn ==
  pc = "rendered" =>
    \A axis \in 1..3 :
      /\ ~params.rotation[axis].nan
      /\ 0 <= params.rotation[axis].v
      /\ params.rotation[axis].v < 2 * Unit

\* C5: in every implementation each position component is
\* (byte / 255) * 10 - 5 for the byte of slots 1, 2, 3: -5 at 0x00, +5 at 0xff.
C5_PositionIsTenthsMinusFive ==
  pc = "rendered" =>
    \A axis \in 1..3 :
      params.position[axis] = Num(ByteAt(hash, axis) * 20 - 5 * Unit)

\* C6 as stated: the hash whose slots are read for primitive i of text s is
\* generateHash(s, i) itself.
C6_HashIsGenerateHashItself ==
  pc = "rendered" => hash = generateHash(inputString, index)

\* C6 as amended: the hash whose slots are read is the SHA-256, in hex, of
\* the hex string generateHash(s, i), and the derived values are those of
\* that second digest.
C6_HashIsDigestOfGenerateHash ==
  pc = "rendered" =>
    /\ hash = toString(SHA256(Join(generateHash(inputString, index))))
    /\ \A axis \in 1..3 :
         params.scale[axis] = Num(ByteAt(hash, 3 + axis) * 4 + Unit \div 2)
    /\ params.opacity = Num(Unit \div 2 + ByteAt(hash, 11))

C6_Witness ==
  /\ pc = "rendered"
  /\ inputString = "Alice"
  /\ index = 0
  /\ seed = generateHash("Alice", 0)
  /\ hash # seed
  /\ ByteAt(hash, 11) # ByteAt(seed, 11)

\* C7: for every non-empty hash and slot, the index read is the integer
\* slot mod floor(len / 2) and the characters parsed are the full pair at
\* offsets 2 * index and 2 * index + 1.  (Stated for lengths of at least 2,
\* where floor(len / 2) is not zero.)
C7_ReadsWholeSegmentAtWrappedSlot ==
  (probe # None /\ Len(hash) >= 2) =>
    /\ probe.start % 2 = 0
    /\ probe.start \div 2 = probe.slot % (Len(hash) \div 2)
    /\ probe.text = SubSeq(hash, probe.start + 1, probe.start + 2)

InInterval(x, lo, hi) == ~x.nan /\ lo <= x.v /\ x.v <= hi

InHalfOpen(x, lo, hi) == ~x.nan /\ lo <= x.v /\ x.v < hi

\* position in [-5, 5], scale in [0.5, 2.5], rotation in [0, 2 pi),
\* hue in [0, 360), opacity in [0.5, 1.0].
InDeclaredIntervals(p) ==
  /\ \A axis \in 1..3 : InInterval(p.position[axis], -5 * Unit, 5 * Unit)
  /\ \A axis \in 1..3 : InInterval(p.scale[axis], Unit \div 2, 5 * (Unit \div 2))
  /\ \A axis \in 1..3 : InHalfOpen(p.rotation[axis], 0, 2 * Unit)
  /\ InHalfOpen(p.color.hue, 0, 360 * Unit)
  /\ InInterval(p.opacity, Unit \div 2, Unit)

AllHex(str) == \A j \in 1..Len(str) : IsHexDigit(str[j])

\* C8: a hex digest shorter than 24 characters still yields numbers inside
\* the declared intervals.  (Stated for the non-empty ones.)
C8_ShortDigestInDeclaredIntervals ==
  (pc = "derived" /\ AllHex(hash) /\ Len(hash) \in 1..23) =>
    InDeclaredIntervals(params)

InvalidDigest == [invalid |-> "invalid digest"]

\* C9: a malformed hash (not 64 characters, or with a character that is no
\* hex digit) is rejected with an explicit invalid-digest outcome and no
\* ParameterSet is produced.
C9_MalformedDigestRejected ==
  (pc = "derived" /\ ~IsDigest(hash)) => params = InvalidDigest

\* The fields that slot k feeds.
FieldsOfSlot(k) ==
  CASE k = 0        -> {"typeIndex", "wireframe", "geometry"}
    [] k \in 1..3   -> {"position"}
    [] k \in 4..6   -> {"scale"}
    [] k = 7        -> {"color"}
    [] k \in 8..10  -> {"rotation"}
    [] k = 11       -> {"opacity"}
    [] OTHER        -> {}

AxisOfSlot(k) ==
  CASE k \in 1..3 -> k [] k \in 4..6 -> k - 3 [] k \in 8..10 -> k - 7 [] OTHER -> 0

\* C10: two digests that differ only in the byte of slot k give ParameterSets
\* that differ at most in the property of slot k (one axis of it for the
\* three-axis properties); a difference in bytes 12 .. 31 changes nothing.
C10_OnlyTheSlotsPropertyChanges ==
  pc = "rerendered" =>
    /\ \A f \in DOMAIN params \ FieldsOfSlot(changedSlot) :
         params[f] = prevParams[f]
    /\ \A f \in {"position", "scale", "rotation"} :
         \A axis \in (1..3) \ {AxisOfSlot(changedSlot)} :
           params[f][axis] = prevParams[f][axis]

C10_Witness ==
  /\ pc = "rerendered"
  /\ changedSlot = 11
  /\ params.opacity # prevParams.opacity
  /\ params.rotation = prevParams.rotation


\* C11: getRandomValue returns (b / 255) * range for the byte b of the
\* wrapped slot: a value in [0, range], 0 exactly for b = 0, range exactly
\* for b = 255, and not smaller for a larger byte.
C11_ScalarIsLinearInByte ==
  pc = "probed" =>
    LET b    == ByteAt(hash, changedSlot)
        bOld == ByteAt(prevHash, changedSlot)
    IN  /\ probe.value = Num(b * probe.range)
        /\ InInterval(probe.value, 0, 255 * probe.range)
        /\ (probe.value.v = 0) <=> (b = 0)
        /\ (probe.value.v = 255 * probe.range) <=> (b = 255)
        /\ (bOld <= b) => (probe.before.v <= probe.value.v)
        /\ (bOld >= b) => (probe.before.v >= probe.value.v)

C11_Witness ==
  /\ pc = "probed"
  /\ probe.slot = 7 + 32
  /\ probe.range = 720
  /\ ByteAt(hash, 7) = 255
  /\ probe.value = Num(360 * Unit)
  /\ probe.before.v < probe.value.v

\* C12: whenever floor(scalar(hash, 0, 7)) is not one of the ordinals 0 .. 6,
\* the geometry rendered is the first variant, the 1x1x1 box, in the array
\* lookup and in the switch.
C12_OutOfRangeSelectorRendersBox ==
  (pc = "derived" /\ (params.typeIndex.nan \/ params.typeIndex.v \notin 0..(NumVariants - 1))) =>
    /\ params.geometry = "boxGeometry[1,1,1]"
    /\ params.geometry = geometries[1]

C12_Witness ==
  /\ pc = "derived"
  /\ impl = "identicon-frontend"
  /\ ~params.typeIndex.nan
  /\ params.typeIndex.v = NumVariants
  /\ params.geometry = "boxGeometry[1,1,1]"

\* The number of decimal digits of n.
RECURSIVE DecimalLength(_)
DecimalLength(n) == IF n < 10 THEN 1 ELSE 1 + DecimalLength(n \div 10)

\* C13: every generateHash variant hashes the text followed by the decimal
\* representation of the index, with no separator, so all build the same
\* preimage.
C13_SamePreimageTextThenDecimalIndex ==
  pc = "preimages" =>
    /\ probe.utils = inputString \o ToString(index)
    /\ Len(probe.utils) = Len(inputString) + DecimalLength(index)
    /\ probe.typewriter = probe.utils
    /\ probe.forum = probe.utils

C13_Witness ==
  /\ pc = "preimages"
  /\ inputString = "Alice"
  /\ index = 107
  /\ probe.utils = "Alice107"
  /\ probe.typewriter = "Alice107"
  /\ probe.forum = "Alice107"

\* C15: each scale component is scalar(hash, slot, 2) + 0.5 for slots 4, 5,
\* 6: strictly positive, inside [0.5, 2.5], 0.5 at byte 0x00 and 2.5 at 0xff.
C15_ScaleBetweenHalfAndTwoAndAHalf ==
  pc \in {"rendered", "rerendered"} =>
    \A axis \in 1..3 :
      LET b == ByteAt(hash, 3 + axis)
          s == params.scale[axis]
      IN  /\ s = Num(b * 4 + Unit \div 2)
          /\ InInterval(s, Unit \div 2, 5 * (Unit \div 2))
          /\ s.v > 0
          /\ (s.v = Unit \div 2) <=> (b = 0)
          /\ (s.v = 5 * (Unit \div 2)) <=> (b = 255)

C15_Witness ==
  /\ pc = "rerendered"
  /\ changedSlot = 5
  /\ ByteAt(hash, 5) = 255
  /\ params.scale[2] = Num(5 * (Unit \div 2))
  /\ prevParams.scale[2] # params.scale[2]

\* C16: the opacity is 0.5 + scalar(hash, 11, 0.5) and lies in [0.5, 1.0].
C16_OpacityBetweenHalfAndOne ==
  pc \in {"rendered", "rerendered"} =>
    /\ params.opacity = Num(Unit \div 2 + ByteAt(hash, 11))
    /\ InInterval(params.opacity, Unit \div 2, Unit)

C16_Witness ==
  /\ pc = "rerendered"
  /\ changedSlot = 11
  /\ ByteAt(hash, 11) = 255
  /\ params.opacity = Num(Unit)

\* C17: the empty text is a valid input: generateHash("", 0) is the hash of
\* "0", and an identicon requested for the empty text gets its primitives
\* and their derived values, not an empty output.
C17_EmptyTextYieldsParameterSets ==
  (inputString = "" /\ pc # "page") =>
    /\ pc \in {"mounted", "rendered"}
    /\ (index = 0 => seed = toString(SHA256("0")))
    /\ (pc = "rendered" => params # None)

\* C18: in the head-and-ring variant the ring does not depend on the seed:
\* exactly 10 primitives, primitive i at angle i/10 of a full turn on a
\* circle of radius 4 tilted by the one shared angle, with sub-shape
\* selector i mod 3, so that exactly the variants 0, 1, 2 occur and the
\* default branch of createGeometry is never taken.
C18_RingIsFixed ==
  pc = "rendered" =>
    /\ Len(params.primitives) = 10
    /\ Len(params.meshes) = 10
    /\ \A i \in 0..9 :
         LET p == params.primitives[i + 1]
         IN  /\ p.x = [radius |-> 4, cosTurn |-> <<i, 10>>]
             /\ p.y = [radius |-> 4, sinTurn |-> <<i, 10>>, cosDeg |-> 4]
             /\ p.z = [radius |-> 4, sinTurn |-> <<i, 10>>, sinDeg |-> 4]
             /\ p.type = i % 3
             /\ params.meshes[i + 1].branch # "default"
    /\ {params.primitives[j].type : j \in 1..10} = {0, 1, 2}

C18_Witness ==
  /\ pc = "rendered"
  /\ impl = "GeometricIdenticonNew"
  /\ inputString = "Diana"
  /\ params.primitives[10].type = 0
  /\ params.meshes[10].branch = "case 0"
  /\ params.meshes[9].geometry = "ConeGeometry[0.5,1,16]"

\* C19 (as stated): in the head-and-ring variant the digest comes from the
\* same digest provider as in the primary variant, and every seed-derived
\* value is (byte / 255) * range of the byte at its slot: the hue is
\* getRandomValue at slot 0 over 360 degrees, and a jitter or an angle is
\* zero only where its byte is zero.
C19_NewVariantUsesScalarExtraction ==
  (pc = "rendered" /\ impl = "GeometricIdenticonNew") =>
    /\ hash = generateHashSeed(seed)
    /\ params.color.hue.v * Unit = getRandomValue(hash, 0, 2 * 360).v
    /\ \A k \in 1..3 :
         params.scale[k].v = baseScale * 100 => ByteAt(hash, k) = 0
    /\ \A k \in 1..3 :
         params.rotation[k].v = 0 => ByteAt(hash, 3 + k) = 0

\* C19 (amended): in the head-and-ring variant the digest is the lowercase
\* hex SHA-256 of the seed prop, as in the primary variant, but the values
\* are taken from its bytes by a modulus: hue = byte 0 (mod 360, which
\* leaves a byte as it is) in degrees, scale k = 10 + (byte k mod 5) * 0.05
\* for bytes 1..3, and the rotation is (byte 4 mod 40, byte 5 mod 50,
\* byte 6 mod 50) degrees.
C19_NewVariantTakesByteModulo ==
  (pc = "rendered" /\ impl = "GeometricIdenticonNew") =>
    /\ hash = generateHashSeed(seed)
    /\ IsDigest(hash)
    /\ params.color.hue = Num(ByteAt(hash, 0) % 360)
    /\ params.color.hue = Num(ByteAt(hash, 0))
    /\ \A k \in 1..3 :
         params.scale[k] = Num(1000 + (ByteAt(hash, k) % 5) * 5)
    /\ params.rotation[1] = Num(ByteAt(hash, 4) % 40)
    /\ params.rotation[2] = Num(ByteAt(hash, 5) % 50)
    /\ params.rotation[3] = Num(ByteAt(hash, 6) % 50)

C19_Witness ==
  /\ pc = "rendered"
  /\ impl = "GeometricIdenticonNew"
  /\ ByteAt(hash, 0) > 0
  /\ params.color.hue.v * Unit # getRandomValue(hash, 0, 2 * 360).v
  /\ ByteAt(hash, 1) >= 5
  /\ ByteAt(hash, 4) >= 40
  /\ params.rotation[1].v < 40
  /\ ByteAt(hash, 4) % 40 # ByteAt(hash, 4) % 50

\* C20: in the Home page, whenever inputString has been modified (by a tick
\* of the typing animation, by its reset to the empty string, or by a user
\* edit, clearing the field included), the seed is updated to it: once the
\* effects have run, seed equals inputString.
C20_SeedFollowsInputString ==
  (/\ pc = "home"
   /\ home.effects = {}
   /\ (home.inputString # <<>> \/ ~home.seed.isNull))
    => (~home.seed.isNull /\ home.seed.value = home.inputString)

IsPrefix(s, t) == Len(s) <= Len(t) /\ SubSeq(t, 1, Len(s)) = s

\* C22: while isTyping is true and the user has not interacted, inputString
\* is a prefix of "enter username :)"; each tick appends exactly the next
\* character of the message, the tick after the full message resets it to
\* the empty string, and the animation repeats forever: unless the user
\* interacts, the full message and the empty string both recur for ever.
C22_TypingAnimationCycles ==
  /\ []((home.isTyping /\ ~home.interacted)
          => IsPrefix(home.inputString, TypingMessage))
  /\ [][(~home.interacted /\ home'.lastEvent = "IntervalTick"
          /\ home'.inputString # home.inputString)
          => IF home.inputString = TypingMessage
               THEN home'.inputString = <<>>
               ELSE /\ Len(home'.inputString) = Len(home.inputString) + 1
                    /\ IsPrefix(home.inputString, home'.inputString)
                    /\ IsPrefix(home'.inputString, TypingMessage)]_vars
  /\ (<>home.interacted
        \/ ([]<>(home.inputString = TypingMessage)
              /\ []<>(home.inputString = <<>>)))

\* The animation is in its second round.
C22_Witness ==
  /\ pc = "home"
  /\ home.isTyping
  /\ ~home.interacted
  /\ home.interval
  /\ home.lastEvent = "IntervalTick"
  /\ home.inputString = <<"e">>
  /\ home.seed = String(TypingMessage)

\* C23: after any sequence of seed changes the memoized hash, position,
\* typeIndex, scale, color, rotation and material of a GeometricIdenticon
\* are the values freshly derived from its current seed prop, and the
\* memoized list of MainContent is the list for the current seed and rotate
\* flag: no cached value belongs to a previous seed.
C23_MemoizedEqualsFresh ==
  pc = "memo" =>
    /\ tree.identicons.value = identiconsFor(inputString, tree.rotate)
    /\ inputString # "" =>
         LET h     == generateHashSeed(generateHash(inputString, index))
             fresh == Component(impl, h)
         IN  /\ tree.child.hash.value = h
             /\ tree.child.position.value = fresh.position
             /\ tree.child.typeIndex.value = fresh.typeIndex
             /\ tree.child.scale.value = fresh.scale
             /\ tree.child.color.value = fresh.color
             /\ tree.child.rotation.value = fresh.rotation
             /\ tree.child.material.value =
                  [color |-> fresh.color, wireframe |-> fresh.wireframe,
                   opacity |-> fresh.opacity]

\* The seed changed from one text to another, with rotation on.
C23_Witness ==
  /\ pc = "memo"
  /\ inputString = "Eve"
  /\ tree.rotate
  /\ tree.reseeded
  /\ tree.child.hash.deps = <<generateHash("Eve", index)>>
  /\ tree.identicons.deps = <<"Eve", TRUE>>

\* C24: for any username u, MainContent with seed u and Sidebar for a post
\* by u hand the same ordered list of derived seeds generateHash(u, j),
\* j = 0..9, to GeometricIdenticon, exactly 10 each, and MainContent
\* renders no primitive while it has no seed.
C24_SameSeedsInMainContentAndSidebar ==
  pc = "memo" =>
    /\ Len(tree.sidebar) = Len(forumPosts)
    /\ \A i \in 1..Len(forumPosts) :
         /\ Len(tree.sidebar[i]) = 10
         /\ \A j \in 0..9 :
              tree.sidebar[i][j + 1].seed = generateHash(forumPosts[i], j)
         /\ inputString = forumPosts[i] =>
              /\ Len(tree.identicons.value) = 10
              /\ \A j \in 1..10 :
                   /\ tree.identicons.value[j].seed = tree.sidebar[i][j].seed
                   /\ tree.identicons.value[j].rotate = tree.sidebar[i][j].rotate
    /\ inputString = "" => tree.identicons.value = <<>>
    /\ inputString # "" =>
         /\ Len(tree.identicons.value) = 10
         /\ \A j \in 0..9 :
              tree.identicons.value[j + 1].seed = generateHash(inputString, j)

\* MainContent shows Diana, who wrote the fourth post.
C24_Witness ==
  /\ pc = "memo"
  /\ inputString = "Diana"
  /\ forumPosts[4] = "Diana"
  /\ tree.identicons.value[10].seed = tree.sidebar[4][10].seed
  /\ IsDigest(tree.sidebar[4][10].seed)
  /\ tree.sidebar[4][1].seed # tree.sidebar[4][2].seed

\* C25: whenever the rotate flag is false, the rotation of the mesh is the
\* Euler angles derived from its seed (slots 8, 9, 10), whatever the history
\* of switching the rotation on, rendering frames and switching it off.
C25_MeshAtSeedRotationWhenNotRotating ==
  (pc = "frame" /\ ~tree.rotate) =>
    /\ tree.mesh.rotation.base = rotation(generateHashSeed(seed))
    /\ IsZeroOffset(tree.mesh.rotation.offset)

\* C26: in the showcase-strings Home page, text typed by the user is never
\* cleared by the animation: the timer that empties inputString, advances
\* currentStringIndex and sets isTyping back to true fires only after the
\* animation itself finished typing a showcase string, and after a user
\* edit or hover the typing resumes only if the input is empty.
C26_UserTextNeverCleared ==
  /\ [][(home.edited /\ home.inputString # <<>>
          /\ home'.inputString # home.inputString)
          => home'.lastEvent = "handleInputChange"]_vars
  /\ [][(home'.lastEvent = "restartTimeout" /\ home' # home)
          => /\ ~home.edited
             /\ ~home.isHovered
             /\ home.inputString = showcaseStrings[home.currentStringIndex + 1]]_vars
  /\ [][(~home.isTyping /\ home'.isTyping /\ home'.lastEvent # "restartTimeout")
          => home.inputString = <<>>]_vars

\* C27: in the single-message typewriter page at most one reset timer is
\* pending at any time, every pending reset timer is cancelled when
\* inputString changes or when the user takes over, and inputString is
\* cleared only once per completed message: never while the next round is
\* being typed and never after handleInputChange has run.
C27_OneResetTimerCancelledOnChange ==
  /\ [](home.timeouts <= 1)
  /\ [][(home'.inputString # home.inputString \/ home'.interacted)
          => home'.timeouts = 0]_vars
  /\ [][(home'.lastEvent = "resetTimeout" /\ home' # home)
          => (home.inputString = showcaseString /\ ~home.interacted)]_vars

\* C28: after mount and after any number of re-renders of Home,
\* canvasRefs.current has exactly forumPosts.length + 1 entries, the sidebar
\* containers at indices 0 .. forumPosts.length - 1 and the main canvas
\* container at the last index, so that the Download Identicon button, which
\* captures index length - 1, always targets the non-null main container.
C28_CanvasRefsHasOneEntryPerCanvas ==
  pc = "capture" =>
    /\ Len(home.canvasRefs) = Len(forumPosts) + 1
    /\ \A i \in 0..(Len(forumPosts) - 1) :
         home.canvasRefs[i + 1] = forumIdenticonContainer(i)
    /\ home.canvasRefs[Len(home.canvasRefs)] = canvasContainer

\* The file names of the downloads, by size.
FileNames ==
  { <<16, "identicon-16x16.png">>, <<32, "identicon-32x32.png">>,
    <<64, "identicon-64x64.png">>, <<128, "identicon-128x128.png">>,
    <<256, "identicon-256x256.png">>, <<512, "identicon-512x512.png">> }

\* C29: captureIdenticon(index, size, canvasRefs) clicks a download link,
\* named identicon-{size}x{size}.png and drawn on a size x size canvas, only
\* when canvasRefs.current[index] is a non-null container that holds a
\* canvas element and a 2D context is obtained; in each failing case it
\* returns without creating the link; in every case canvasRefs is as before.
C29_DownloadOnlyFromACanvas ==
  (pc = "capture" /\ probe # None) =>
    LET container == IF probe.index >= 0 /\ probe.index < Len(probe.before)
                       THEN probe.before[probe.index + 1] ELSE null
        ok        == ~container.isNull /\ probe.hasCanvas /\ probe.hasContext
    IN  /\ probe.result.clicked <=> ok
        /\ ok => /\ <<probe.size, probe.result.link.download>> \in FileNames
                 /\ probe.result.link.width = probe.size
                 /\ probe.result.link.height = probe.size
                 /\ probe.result.console = ""
        /\ ~ok => /\ probe.result.link = NoLink
                  /\ probe.result.console # ""
        /\ probe.result.canvasRefs = probe.before

\* A 128 x 128 download of the second post's identicon.
C29_Witness ==
  /\ pc = "capture"
  /\ probe # None
  /\ probe.index = 1
  /\ probe.before[2] = forumIdenticonContainer(1)
  /\ probe.result.clicked
  /\ probe.result.link.download = "identicon-128x128.png"
  /\ \E k \in 1..Len(home.canvasRefs) : home.canvasRefs[k].isNull
=============================================================================
